---- MODULE Spec2Model ----
(***************************************************************************)
(* State-machine model of the templess optimization worker                 *)
(* (src/src/optimization/worker.rs), of the clingo wrappers it drives      *)
(* (src/src/clingo/control.rs, solve_handle.rs, model.rs) and of the       *)
(* part of the GUI consumer that shares the stop flag and the status       *)
(* channel with it (src/src/gui/dashboard/inventory.rs).                   *)
(*                                                                         *)
(* Spec     : one run of start_optimization_worker, interleaved with the   *)
(*            holder of the stop flag, the holder of the receiver and the  *)
(*            native search.                                               *)
(* FairSpec : Spec plus weak fairness of the worker thread's steps.        *)
(* ApiSpec  : a client of the public API of Control, SolveHandle, Model.   *)
(* HandleSpec, DataSpec, GuiSpec : the life of a solve handle, the data   *)
(*            a run passes on, and the edits of the template in the GUI.   *)
(* CallSpec : single calls of the symbol, configuration and control        *)
(*            wrappers and of the atom generators.                         *)
(* ClickSpec: the optimize button, the runs it starts, their consumer      *)
(*            tasks and the scratch file they share.                       *)
(***************************************************************************)
EXTENDS Integers, Sequences, FiniteSets, TLC

\* Largest number of models the native search yields in one run.
MaxModels == 3

\* Largest number of sessions the API client creates (ApiSpec).
MaxSessions == 2

\* Calls of cancel() a client of a solve handle makes at most.
MaxCancels == 2

\* Models decoded and sent in a run of the data model.
MaxDataModels == 2

\* slot_chosen facts decoded from one model.
MaxFacts == 2

\* GUI handlers (equip, unequip) called during a run.
MaxEdits == 1

VARIABLES
    pc,            \* position of the worker thread in worker.rs
    result,        \* "none" | "ok" | "err": what run_optimization_logic returned
    stop_flag,     \* the shared AtomicBool
    rxOpen,        \* the consumer still holds the receiving end of the channel
    chan,          \* the messages the channel has accepted, in order
    control,       \* "none" | "live" | "freed": the local `control`
    handle,        \* "none" | "open" | "closed": the local `handle`
    solver,        \* state of the native search behind the handle
    produced,      \* number of models the native search has yielded so far
    controlFrees,  \* calls of clingo_control_free
    handleCloses,  \* calls of clingo_solve_handle_close
    cancelCalls,   \* calls of handle.cancel()
    sawStop,       \* "no" | "early" | "loop": where the worker read the flag as set
    nmAtSaw,       \* NewModel messages on the channel when the flag was read as set
    flagSetAt,     \* `produced` when the flag was stored (-1: never stored)
    failed,        \* a native call, a decode or an atom builder has returned Err
    modelRef,      \* ordinal of the model the binding `model_ref` points to (0: no binding)
    staleRead,     \* a Model was read when it was no longer the engine's current model
    sessions,      \* ApiSpec: state of every session the client created
    openHandle,    \* ApiSpec: session whose blocking solve is in progress (0: none)
    handleState,   \* ApiSpec: "none" | "open" | "closed": handle of that solve
    apiCloses,     \* ApiSpec: closes of the current solve's native handle
    apiFrees,      \* ApiSpec: frees per session
    heldModel,     \* ApiSpec: the Model copy the client holds
    misuse,        \* ApiSpec: a native call has been made on released memory
    apiSearch,     \* ApiSpec: "idle" | "running" | "finished": the native search
    ready,         \* HandleSpec: result of the last wait ("unset" | "ready" | "timeout")
                   \* and the number of cancel() calls that preceded it
    lastResult,    \* HandleSpec: flags the last get() returned ({}: not called)
    template,      \* DataSpec: the worker's input template
    items,         \* DataSpec: the worker's candidate list
    chosen_items,  \* DataSpec: the (slot, item id) pairs decoded from the current model
    new_template,  \* DataSpec: the clone being merged
    mk,            \* DataSpec: index of the next pair of chosen_items to merge
    dpc,           \* DataSpec: position of the worker in the iteration
    dchan,         \* DataSpec: the messages sent, with their templates
    stored,        \* DataSpec: app_state.template, the shared stored template
    rcvd,          \* DataSpec: messages the consumer task has handled
    cpc,           \* DataSpec: position of the consumer task
    lock,          \* DataSpec: "free" | "consumer" | "gui": holder of the template mutex
    gpc,           \* DataSpec: position of the GUI handler in progress
    gop,           \* DataSpec: what that handler was called for
    edits,         \* DataSpec: GUI handlers called so far
    wrote,         \* DataSpec: "none" | "replace" | "in_place": kind of the last write
    ops,           \* the session operations the worker has called, in order
    writeErr,      \* std::fs::write of instance.lp has returned Err
    nmAtSet,       \* NewModel messages on the channel when the flag was stored (-1: never)
    call,          \* CallSpec: the call in progress (function and argument)
    ret,           \* CallSpec: what the call returned ("none": not returned yet)
    natives,       \* CallSpec: the native calls the call has made, in order
    engine,        \* CallSpec: what the native session holds
    ui_state,      \* ClickSpec: the signal ui_state of the Inventory component
    stop_signal,   \* ClickSpec: the signal stop_flag: 0 (None) or the run whose flag it holds
    runs,          \* ClickSpec: every started run: worker, flag, channel, consumer task
    started,       \* ClickSpec: number of runs started
    file           \* ClickSpec: content of the scratch file instance.lp

workerVars == <<pc, result, stop_flag, rxOpen, chan, control, handle, solver,
                produced, controlFrees, handleCloses, cancelCalls, sawStop,
                nmAtSaw, flagSetAt, failed, modelRef, staleRead>>

apiVars == <<sessions, openHandle, handleState, apiCloses, apiFrees, heldModel,
             misuse, apiSearch>>

clientVars == <<ready, lastResult>>

dataVars == <<template, items, chosen_items, new_template, mk, dpc, dchan,
              stored, rcvd, cpc, lock, gpc, gop, edits, wrote>>

traceVars == <<ops, writeErr, nmAtSet>>

callVars == <<call, ret, natives, engine>>

runsVars == <<ui_state, stop_signal, runs, started, file>>

moreVars == <<traceVars, callVars, runsVars>>

extVars == <<clientVars, dataVars, moreVars>>

vars == <<pc, result, stop_flag, rxOpen, chan, control, handle, solver,
          produced, controlFrees, handleCloses, cancelCalls, sawStop,
          nmAtSaw, flagSetAt, failed, modelRef, staleRead,
          sessions, openHandle, handleState, apiCloses, apiFrees, heldModel, misuse,
          apiSearch, ready, lastResult,
          template, items, chosen_items, new_template, mk, dpc, dchan,
          stored, rcvd, cpc, lock, gpc, gop, edits, wrote,
          ops, writeErr, nmAtSet, call, ret, natives, engine,
          ui_state, stop_signal, runs, started, file>>

(***************************************************************************)
(* OptimizeStatus and the channel                                          *)
(***************************************************************************)

\* The variants of OptimizeStatus; NewModel carries the ordinal of its model.
Setup == [tag |-> "Setup"]
Grounding == [tag |-> "Grounding"]
Solving == [tag |-> "Solving"]
NewModel(n) == [tag |-> "NewModel", model |-> n]
Finished == [tag |-> "Finished"]
Error == [tag |-> "Error"]

\* UnboundedSender::send: accepted while the receiver exists, Err(SendError)
\* once it has been dropped.
SendOk == rxOpen

Sent(m) == IF rxOpen THEN Append(chan, m) ELSE chan

Count(s, t) == Cardinality({i \in 1..Len(s) : s[i].tag = t})

IsTerminal(m) == m.tag \in {"Finished", "Error"}

NumTerminal(s) == Count(s, "Finished") + Count(s, "Error")

(***************************************************************************)
(* The native search behind a solve handle.  Control::solve() without an   *)
(* event handler, SolveHandle::wait, ::resume and ::cancel are called by   *)
(* worker.rs and defined outside the files modelled here; they follow the    *)
(* documented behaviour of the solve handle (asynchronous, yielding).      *)
(***************************************************************************)

\* handle.wait(0.1): TRUE when a model or the final result is ready, FALSE on
\* timeout, i.e. while the search is still running.
WaitReady == solver # "searching"

\* Mutant of AfterCancel: every cancel marks the search as interrupted.
AfterCancelAlways == IF solver = "closed" THEN solver ELSE "interrupted"

\* handle.cancel(): interrupts a search that has not finished; idempotent.
AfterCancel == IF solver \in {"searching", "model"} THEN "interrupted" ELSE solver

\* handle.resume(): discards the current model and searches for the next one.
AfterResume == IF solver = "model" THEN "searching" ELSE solver

\* What the native search reports as its result: the flags SolveHandle::get
\* decodes (solve_result.rs:12-26).
EngineResult ==
    IF solver = "exhausted"
       THEN {"Exhausted"} \cup (IF produced > 0 THEN {"Satisfiable"} ELSE {"Unsatisfiable"})
    ELSE IF solver = "interrupted"
       THEN {"Interrupted"} \cup (IF produced > 0 THEN {"Satisfiable"} ELSE {})
    ELSE IF solver = "model" THEN {"Satisfiable"}
    ELSE {}

\* The native search yields its next model.
SolverFindsModel ==
    /\ handle = "open"
    /\ solver = "searching"
    /\ produced < MaxModels
    /\ solver' = "model"
    /\ produced' = produced + 1
    /\ UNCHANGED <<pc, result, stop_flag, rxOpen, chan, control, handle,
                   controlFrees, handleCloses, cancelCalls, sawStop, nmAtSaw,
                   flagSetAt>>
    /\ UNCHANGED failed
    /\ UNCHANGED <<modelRef, staleRead>>
    /\ UNCHANGED apiVars
    /\ UNCHANGED extVars

\* The native search runs out of models.
SolverExhausts ==
    /\ handle = "open"
    /\ solver = "searching"
    /\ solver' = "exhausted"
    /\ UNCHANGED <<pc, result, stop_flag, rxOpen, chan, control, handle, produced,
                   controlFrees, handleCloses, cancelCalls, sawStop, nmAtSaw,
                   flagSetAt>>
    /\ UNCHANGED failed
    /\ UNCHANGED <<modelRef, staleRead>>
    /\ UNCHANGED apiVars
    /\ UNCHANGED extVars

(***************************************************************************)
(* The environment of the worker                                           *)
(***************************************************************************)

\* inventory.rs, on_toggle_optimization: flag.store(true, Relaxed).  Any holder
\* of the Arc may store at any point of the run; a store made after
\* run_optimization_logic has returned is read by nobody and is left out.
StoreStopFlag ==
    /\ result = "none"
    /\ ~stop_flag
    /\ stop_flag' = TRUE
    /\ flagSetAt' = produced
    /\ nmAtSet' = Count(chan, "NewModel")
    /\ UNCHANGED <<pc, result, rxOpen, chan, control, handle, solver, produced,
                   controlFrees, handleCloses, cancelCalls, sawStop, nmAtSaw>>
    /\ UNCHANGED failed
    /\ UNCHANGED <<modelRef, staleRead>>
    /\ UNCHANGED apiVars
    /\ UNCHANGED <<ops, writeErr>>
    /\ UNCHANGED <<clientVars, dataVars, callVars, runsVars>>

\* The task that owns `rx` is dropped (its component is unmounted): every
\* later send returns Err.
DropReceiver ==
    /\ rxOpen
    /\ rxOpen' = FALSE
    /\ UNCHANGED <<pc, result, stop_flag, chan, control, handle, solver, produced,
                   controlFrees, handleCloses, cancelCalls, sawStop, nmAtSaw,
                   flagSetAt>>
    /\ UNCHANGED failed
    /\ UNCHANGED <<modelRef, staleRead>>
    /\ UNCHANGED apiVars
    /\ UNCHANGED extVars

(***************************************************************************)
(* run_optimization_logic, statement by statement                          *)
(***************************************************************************)

\* `return`/`?`/falling off the end: the function's result is fixed and its
\* locals are dropped (handle first, then control: reverse declaration order).
Return(r) ==
    /\ result' = r
    /\ pc' = "drop_handle"

\* worker.rs:77   let _ = status_sender.send(OptimizeStatus::Setup);
SendSetup ==
    /\ pc = "setup"
    /\ chan' = Sent(Setup)
    /\ pc' = "atoms"
    /\ UNCHANGED <<result, stop_flag, rxOpen, control, handle, solver, produced,
                   controlFrees, handleCloses, cancelCalls, sawStop, nmAtSaw,
                   flagSetAt>>
    /\ UNCHANGED failed
    /\ UNCHANGED <<modelRef, staleRead>>
    /\ UNCHANGED apiVars
    /\ UNCHANGED extVars

\* worker.rs:79-83  class_atoms(..)? slot_atoms(..)? stat_atoms()? item_atoms(..)?
BuildInstance ==
    /\ pc = "atoms"
    /\ \E ok \in BOOLEAN :
       /\ failed' = (failed \/ ~ok)
       /\ IF ok THEN pc' = "write" /\ result' = result
                ELSE Return("err")
    /\ UNCHANGED <<stop_flag, rxOpen, chan, control, handle, solver, produced,
                   controlFrees, handleCloses, cancelCalls, sawStop, nmAtSaw,
                   flagSetAt>>
    /\ UNCHANGED <<modelRef, staleRead>>
    /\ UNCHANGED apiVars
    /\ UNCHANGED extVars

\* worker.rs:84-85  let _ = std::fs::write(file_path, &asp_data);  the result
\* of the write is discarded.
WriteInstance ==
    /\ pc = "write"
    /\ \E ok \in BOOLEAN : writeErr' = ~ok
    /\ pc' = "new"
    /\ UNCHANGED <<result, stop_flag, rxOpen, chan, control, handle, solver, produced,
                   controlFrees, handleCloses, cancelCalls, sawStop, nmAtSaw,
                   flagSetAt>>
    /\ UNCHANGED failed
    /\ UNCHANGED <<modelRef, staleRead>>
    /\ UNCHANGED apiVars
    /\ UNCHANGED <<ops, nmAtSet>>
    /\ UNCHANGED <<clientVars, dataVars, callVars, runsVars>>

\* A session operation as the worker calls it: its outcome and the value the
\* stop flag has at the time of the call.
Op(name, ok) == [op |-> name, ok |-> ok, flag |-> stop_flag]

\* worker.rs:87   let control = Control::new()?;
ControlNew ==
    /\ pc = "new"
    /\ \E ok \in BOOLEAN :
       /\ failed' = (failed \/ ~ok)
       /\ ops' = Append(ops, Op("new", ok))
       /\ IF ok THEN pc' = "load_instance" /\ control' = "live" /\ result' = result
                ELSE Return("err") /\ control' = control
    /\ UNCHANGED <<stop_flag, rxOpen, chan, handle, solver, produced,
                   controlFrees, handleCloses, cancelCalls, sawStop, nmAtSaw,
                   flagSetAt>>
    /\ UNCHANGED <<modelRef, staleRead>>
    /\ UNCHANGED apiVars
    /\ UNCHANGED <<writeErr, nmAtSet>>
    /\ UNCHANGED <<clientVars, dataVars, callVars, runsVars>>

\* Mutant of LoadInstance: a failed load is ignored and the run goes on.
LoadInstanceIgnoresErr ==
    /\ pc = "load_instance"
    /\ \E ok \in BOOLEAN :
       /\ failed' = (failed \/ ~ok)
       /\ ops' = Append(ops, Op("load_instance", ok))
       /\ pc' = "load_encoding" /\ result' = result
    /\ UNCHANGED <<stop_flag, rxOpen, chan, control, handle, solver, produced,
                   controlFrees, handleCloses, cancelCalls, sawStop, nmAtSaw,
                   flagSetAt>>
    /\ UNCHANGED <<modelRef, staleRead>>
    /\ UNCHANGED apiVars
    /\ UNCHANGED <<writeErr, nmAtSet>>
    /\ UNCHANGED <<clientVars, dataVars, callVars, runsVars>>

\* worker.rs:88   control.load("instance.lp")?;
LoadInstance ==
    /\ pc = "load_instance"
    /\ \E ok \in BOOLEAN :
       /\ failed' = (failed \/ ~ok)
       /\ ops' = Append(ops, Op("load_instance", ok))
       /\ IF ok THEN pc' = "load_encoding" /\ result' = result
                ELSE Return("err")
    /\ UNCHANGED <<stop_flag, rxOpen, chan, control, handle, solver, produced,
                   controlFrees, handleCloses, cancelCalls, sawStop, nmAtSaw,
                   flagSetAt>>
    /\ UNCHANGED <<modelRef, staleRead>>
    /\ UNCHANGED apiVars
    /\ UNCHANGED <<writeErr, nmAtSet>>
    /\ UNCHANGED <<clientVars, dataVars, callVars, runsVars>>

\* worker.rs:89   control.load("src/optimization/encoding.lp")?;
LoadEncoding ==
    /\ pc = "load_encoding"
    /\ \E ok \in BOOLEAN :
       /\ failed' = (failed \/ ~ok)
       /\ ops' = Append(ops, Op("load_encoding", ok))
       /\ IF ok THEN pc' = "send_grounding" /\ result' = result
                ELSE Return("err")
    /\ UNCHANGED <<stop_flag, rxOpen, chan, control, handle, solver, produced,
                   controlFrees, handleCloses, cancelCalls, sawStop, nmAtSaw,
                   flagSetAt>>
    /\ UNCHANGED <<modelRef, staleRead>>
    /\ UNCHANGED apiVars
    /\ UNCHANGED <<writeErr, nmAtSet>>
    /\ UNCHANGED <<clientVars, dataVars, callVars, runsVars>>

\* worker.rs:91   status_sender.send(OptimizeStatus::Grounding)?;
SendGrounding ==
    /\ pc = "send_grounding"
    /\ chan' = Sent(Grounding)
    /\ IF SendOk THEN pc' = "ground" /\ result' = result
                 ELSE Return("err")
    /\ UNCHANGED <<stop_flag, rxOpen, control, handle, solver, produced,
                   controlFrees, handleCloses, cancelCalls, sawStop, nmAtSaw,
                   flagSetAt>>
    /\ UNCHANGED failed
    /\ UNCHANGED <<modelRef, staleRead>>
    /\ UNCHANGED apiVars
    /\ UNCHANGED extVars

\* worker.rs:92   control.ground()?;
Ground ==
    /\ pc = "ground"
    /\ \E ok \in BOOLEAN :
       /\ failed' = (failed \/ ~ok)
       /\ ops' = Append(ops, Op("ground", ok))
       /\ IF ok THEN pc' = "check_stop" /\ result' = result
                ELSE Return("err")
    /\ UNCHANGED <<stop_flag, rxOpen, chan, control, handle, solver, produced,
                   controlFrees, handleCloses, cancelCalls, sawStop, nmAtSaw,
                   flagSetAt>>
    /\ UNCHANGED <<modelRef, staleRead>>
    /\ UNCHANGED apiVars
    /\ UNCHANGED <<writeErr, nmAtSet>>
    /\ UNCHANGED <<clientVars, dataVars, callVars, runsVars>>

\* Mutant of CheckStopAfterGround: the flag is not read after grounding.
CheckStopSkipped ==
    /\ pc = "check_stop"
    /\ pc' = "send_solving"
    /\ UNCHANGED <<result, sawStop, nmAtSaw>>
    /\ UNCHANGED <<stop_flag, rxOpen, chan, control, handle, solver, produced,
                   controlFrees, handleCloses, cancelCalls, flagSetAt>>
    /\ UNCHANGED failed
    /\ UNCHANGED <<modelRef, staleRead>>
    /\ UNCHANGED apiVars
    /\ UNCHANGED extVars

\* worker.rs:94-96   if stop_flag.load(Relaxed) { return Ok(()); }
CheckStopAfterGround ==
    /\ pc = "check_stop"
    /\ IF stop_flag
          THEN /\ Return("ok")
               /\ sawStop' = "early"
               /\ nmAtSaw' = Count(chan, "NewModel")
          ELSE /\ pc' = "send_solving"
               /\ UNCHANGED <<result, sawStop, nmAtSaw>>
    /\ UNCHANGED <<stop_flag, rxOpen, chan, control, handle, solver, produced,
                   controlFrees, handleCloses, cancelCalls, flagSetAt>>
    /\ UNCHANGED failed
    /\ UNCHANGED <<modelRef, staleRead>>
    /\ UNCHANGED apiVars
    /\ UNCHANGED extVars

\* worker.rs:98   let _ = status_sender.send(OptimizeStatus::Solving);
SendSolving ==
    /\ pc = "send_solving"
    /\ chan' = Sent(Solving)
    /\ pc' = "solve"
    /\ UNCHANGED <<result, stop_flag, rxOpen, control, handle, solver, produced,
                   controlFrees, handleCloses, cancelCalls, sawStop, nmAtSaw,
                   flagSetAt>>
    /\ UNCHANGED failed
    /\ UNCHANGED <<modelRef, staleRead>>
    /\ UNCHANGED apiVars
    /\ UNCHANGED extVars

\* worker.rs:100  let mut handle = control.solve()?;
Solve ==
    /\ pc = "solve"
    /\ \E ok \in BOOLEAN :
       /\ failed' = (failed \/ ~ok)
       /\ ops' = Append(ops, Op("solve", ok))
       /\ IF ok THEN /\ pc' = "loop"
                     /\ handle' = "open"
                     /\ solver' = "searching"
                     /\ result' = result
                ELSE /\ Return("err")
                     /\ UNCHANGED <<handle, solver>>
    /\ UNCHANGED <<stop_flag, rxOpen, chan, control, produced,
                   controlFrees, handleCloses, cancelCalls, sawStop, nmAtSaw,
                   flagSetAt>>
    /\ UNCHANGED <<modelRef, staleRead>>
    /\ UNCHANGED apiVars
    /\ UNCHANGED <<writeErr, nmAtSet>>
    /\ UNCHANGED <<clientVars, dataVars, callVars, runsVars>>

\* Mutant of LoopCheck: the flag is read and noted, but the iteration goes on
\* to the wait instead of leaving the loop.
LoopCheckNoBreak ==
    /\ pc = "loop"
    /\ pc' = "wait"
    /\ IF stop_flag
          THEN /\ sawStop' = "loop"
               /\ nmAtSaw' = Count(chan, "NewModel")
          ELSE UNCHANGED <<sawStop, nmAtSaw>>
    /\ UNCHANGED <<result, stop_flag, rxOpen, chan, control, handle, solver,
                   produced, controlFrees, handleCloses, cancelCalls, flagSetAt>>
    /\ UNCHANGED failed
    /\ UNCHANGED <<modelRef, staleRead>>
    /\ UNCHANGED apiVars
    /\ UNCHANGED extVars

\* Mutant of LoopCheck: the loop never reads the flag.
LoopCheckIgnoresFlag ==
    /\ pc = "loop"
    /\ pc' = "wait"
    /\ UNCHANGED <<result, stop_flag, rxOpen, chan, control, handle, solver,
                   produced, controlFrees, handleCloses, cancelCalls, sawStop,
                   nmAtSaw, flagSetAt>>
    /\ UNCHANGED failed
    /\ UNCHANGED <<modelRef, staleRead>>
    /\ UNCHANGED apiVars
    /\ UNCHANGED extVars

\* worker.rs:103  if stop_flag.load(Relaxed) { ... }   (top of every iteration)
LoopCheck ==
    /\ pc = "loop"
    /\ IF stop_flag
          THEN /\ pc' = "cancel"
               /\ sawStop' = "loop"
               /\ nmAtSaw' = Count(chan, "NewModel")
          ELSE /\ pc' = "wait"
               /\ UNCHANGED <<sawStop, nmAtSaw>>
    /\ UNCHANGED <<result, stop_flag, rxOpen, chan, control, handle, solver,
                   produced, controlFrees, handleCloses, cancelCalls, flagSetAt>>
    /\ UNCHANGED failed
    /\ UNCHANGED <<modelRef, staleRead>>
    /\ UNCHANGED apiVars
    /\ UNCHANGED extVars

\* worker.rs:104  let _ = handle.cancel();
Cancel ==
    /\ pc = "cancel"
    /\ solver' = AfterCancel
    /\ cancelCalls' = cancelCalls + 1
    /\ pc' = "send_finished_stop"
    /\ UNCHANGED <<result, stop_flag, rxOpen, chan, control, handle, produced,
                   controlFrees, handleCloses, sawStop, nmAtSaw, flagSetAt>>
    /\ UNCHANGED failed
    /\ UNCHANGED <<modelRef, staleRead>>
    /\ UNCHANGED apiVars
    /\ UNCHANGED extVars

\* worker.rs:105-106  let _ = status_sender.send(OptimizeStatus::Finished); break;
SendFinishedStop ==
    /\ pc = "send_finished_stop"
    /\ chan' = Sent(Finished)
    /\ Return("ok")
    /\ UNCHANGED <<stop_flag, rxOpen, control, handle, solver, produced,
                   controlFrees, handleCloses, cancelCalls, sawStop, nmAtSaw,
                   flagSetAt>>
    /\ UNCHANGED failed
    /\ UNCHANGED <<modelRef, staleRead>>
    /\ UNCHANGED apiVars
    /\ UNCHANGED extVars

\* Mutant of Wait: the result of the wait is ignored, the worker only polls.
WaitNeverReady ==
    /\ pc = "wait"
    /\ pc' = "loop"
    /\ UNCHANGED <<result, stop_flag, rxOpen, chan, control, handle, solver,
                   produced, controlFrees, handleCloses, cancelCalls, sawStop,
                   nmAtSaw, flagSetAt>>
    /\ UNCHANGED failed
    /\ UNCHANGED <<modelRef, staleRead>>
    /\ UNCHANGED apiVars
    /\ UNCHANGED extVars

\* worker.rs:109-111  let ready = handle.wait(0.1); if ready { ... }
Wait ==
    /\ pc = "wait"
    /\ pc' = IF WaitReady THEN "model" ELSE "loop"
    /\ UNCHANGED <<result, stop_flag, rxOpen, chan, control, handle, solver,
                   produced, controlFrees, handleCloses, cancelCalls, sawStop,
                   nmAtSaw, flagSetAt>>
    /\ UNCHANGED failed
    /\ UNCHANGED <<modelRef, staleRead>>
    /\ UNCHANGED apiVars
    /\ UNCHANGED extVars

\* model.rs:15-28: a Model is a view of the engine's current model; it can be
\* read while the search that yielded it is parked on that very model.
ModelCurrent ==
    /\ modelRef # 0
    /\ handle = "open"
    /\ solver = "model"
    /\ produced = modelRef

\* Mutant of GetModel: the Err arm does not leave the loop; the worker polls
\* the handle again.
GetModelErrContinues ==
    /\ pc = "model"
    /\ \E ok \in BOOLEAN :
       /\ failed' = (failed \/ ~ok)
       /\ pc' = IF ~ok THEN "loop"
                ELSE IF solver = "model" THEN "decode"
                ELSE "send_finished"
       /\ modelRef' = IF ok /\ solver = "model" THEN produced ELSE 0
    /\ UNCHANGED <<result, stop_flag, rxOpen, chan, control, handle, solver,
                   produced, controlFrees, handleCloses, cancelCalls, sawStop,
                   nmAtSaw, flagSetAt>>
    /\ UNCHANGED staleRead
    /\ UNCHANGED apiVars
    /\ UNCHANGED extVars

\* Mutant of GetModel: the Ok(Some(model_ref)) arm resumes the search before
\* it decodes the model.
GetModelResumesFirst ==
    /\ pc = "model"
    /\ \E ok \in BOOLEAN :
       /\ failed' = (failed \/ ~ok)
       /\ pc' = IF ~ok THEN "send_error"
                ELSE IF solver = "model" THEN "decode"
                ELSE "send_finished"
       /\ modelRef' = IF ok /\ solver = "model" THEN produced ELSE 0
       /\ solver' = IF ok THEN AfterResume ELSE solver
    /\ UNCHANGED <<result, stop_flag, rxOpen, chan, control, handle,
                   produced, controlFrees, handleCloses, cancelCalls, sawStop,
                   nmAtSaw, flagSetAt>>
    /\ UNCHANGED staleRead
    /\ UNCHANGED apiVars
    /\ UNCHANGED extVars

\* worker.rs:112  match handle.model()   (solve_handle.rs:40-58: Err when the
\* native call fails, Ok(None) on a null model pointer, Ok(Some) otherwise)
GetModel ==
    /\ pc = "model"
    /\ \E ok \in BOOLEAN :
       /\ failed' = (failed \/ ~ok)
       /\ pc' = IF ~ok THEN "send_error"
                ELSE IF solver = "model" THEN "decode"
                ELSE "send_finished"
       /\ modelRef' = IF ok /\ solver = "model" THEN produced ELSE 0
    /\ UNCHANGED <<result, stop_flag, rxOpen, chan, control, handle, solver,
                   produced, controlFrees, handleCloses, cancelCalls, sawStop,
                   nmAtSaw, flagSetAt>>
    /\ UNCHANGED staleRead
    /\ UNCHANGED apiVars
    /\ UNCHANGED extVars

\* worker.rs:114  let chosen_items = chosen_items_from_model(model_ref)?;
Decode ==
    /\ pc = "decode"
    /\ \E ok \in BOOLEAN :
       /\ failed' = (failed \/ ~ok)
       /\ IF ok THEN /\ pc' = "send_new_model"
                     /\ result' = result
                     /\ modelRef' = modelRef
                ELSE /\ Return("err")
                     /\ modelRef' = 0
    /\ staleRead' = (staleRead \/ ~ModelCurrent)
    /\ UNCHANGED <<stop_flag, rxOpen, chan, control, handle, solver, produced,
                   controlFrees, handleCloses, cancelCalls, sawStop, nmAtSaw,
                   flagSetAt>>
    /\ UNCHANGED apiVars
    /\ UNCHANGED extVars

\* Mutant of SendNewModel: the result of the send is ignored (`let _ =`), the
\* worker goes on to resume the search.
SendNewModelIgnoresErr ==
    /\ pc = "send_new_model"
    /\ chan' = Sent(NewModel(produced))
    /\ pc' = "resume"
    /\ UNCHANGED <<result, modelRef>>
    /\ UNCHANGED <<stop_flag, rxOpen, control, handle, solver, produced,
                   controlFrees, handleCloses, cancelCalls, sawStop, nmAtSaw,
                   flagSetAt>>
    /\ UNCHANGED failed
    /\ UNCHANGED staleRead
    /\ UNCHANGED apiVars
    /\ UNCHANGED extVars

\* worker.rs:116-124  build new_template; status_sender.send(NewModel(..))?;
SendNewModel ==
    /\ pc = "send_new_model"
    /\ chan' = Sent(NewModel(produced))
    /\ IF SendOk THEN /\ pc' = "resume"
                      /\ result' = result
                      /\ modelRef' = modelRef
                 ELSE /\ Return("err")
                      /\ modelRef' = 0
    /\ UNCHANGED <<stop_flag, rxOpen, control, handle, solver, produced,
                   controlFrees, handleCloses, cancelCalls, sawStop, nmAtSaw,
                   flagSetAt>>
    /\ UNCHANGED failed
    /\ UNCHANGED staleRead
    /\ UNCHANGED apiVars
    /\ UNCHANGED extVars

\* Mutant of Resume: after a resume the worker polls again without going
\* through the flag check at the top of the loop.
ResumeSkipsCheck ==
    /\ pc = "resume"
    /\ \E ok \in BOOLEAN :
       /\ failed' = (failed \/ ~ok)
       /\ IF ok THEN /\ solver' = AfterResume
                     /\ pc' = "wait"
                     /\ result' = result
                ELSE /\ Return("err")
                     /\ solver' = solver
    /\ modelRef' = 0
    /\ UNCHANGED <<stop_flag, rxOpen, chan, control, handle, produced,
                   controlFrees, handleCloses, cancelCalls, sawStop, nmAtSaw,
                   flagSetAt>>
    /\ UNCHANGED staleRead
    /\ UNCHANGED apiVars
    /\ UNCHANGED extVars

\* worker.rs:126  handle.resume()?;
Resume ==
    /\ pc = "resume"
    /\ \E ok \in BOOLEAN :
       /\ failed' = (failed \/ ~ok)
       /\ IF ok THEN /\ solver' = AfterResume
                     /\ pc' = "loop"
                     /\ result' = result
                ELSE /\ Return("err")
                     /\ solver' = solver
    /\ modelRef' = 0
    /\ UNCHANGED <<stop_flag, rxOpen, chan, control, handle, produced,
                   controlFrees, handleCloses, cancelCalls, sawStop, nmAtSaw,
                   flagSetAt>>
    /\ UNCHANGED staleRead
    /\ UNCHANGED apiVars
    /\ UNCHANGED extVars

\* worker.rs:128-131  Ok(None) => { status_sender.send(Finished)?; break; }
SendFinished ==
    /\ pc = "send_finished"
    /\ chan' = Sent(Finished)
    /\ IF SendOk THEN Return("ok") ELSE Return("err")
    /\ UNCHANGED <<stop_flag, rxOpen, control, handle, solver, produced,
                   controlFrees, handleCloses, cancelCalls, sawStop, nmAtSaw,
                   flagSetAt>>
    /\ UNCHANGED failed
    /\ UNCHANGED <<modelRef, staleRead>>
    /\ UNCHANGED apiVars
    /\ UNCHANGED extVars

\* Mutant of SendError: the arm reports the error and then also returns it.
SendErrorThenFail ==
    /\ pc = "send_error"
    /\ chan' = Sent(Error)
    /\ Return("err")
    /\ UNCHANGED <<stop_flag, rxOpen, control, handle, solver, produced,
                   controlFrees, handleCloses, cancelCalls, sawStop, nmAtSaw,
                   flagSetAt>>
    /\ UNCHANGED failed
    /\ UNCHANGED <<modelRef, staleRead>>
    /\ UNCHANGED apiVars
    /\ UNCHANGED extVars

\* worker.rs:132-135  Err(e) => { status_sender.send(Error(..))?; break; }
SendError ==
    /\ pc = "send_error"
    /\ chan' = Sent(Error)
    /\ IF SendOk THEN Return("ok") ELSE Return("err")
    /\ UNCHANGED <<stop_flag, rxOpen, control, handle, solver, produced,
                   controlFrees, handleCloses, cancelCalls, sawStop, nmAtSaw,
                   flagSetAt>>
    /\ UNCHANGED failed
    /\ UNCHANGED <<modelRef, staleRead>>
    /\ UNCHANGED apiVars
    /\ UNCHANGED extVars

\* Mutant of DropHandle: the handle is left to the end of the thread
\* (declared before the session, it would be dropped after it).
DropHandleAfterControl ==
    /\ pc = "drop_handle"
    /\ pc' = "drop_control"
    /\ UNCHANGED <<handle, handleCloses, solver>>
    /\ UNCHANGED <<result, stop_flag, rxOpen, chan, control, produced,
                   controlFrees, cancelCalls, sawStop, nmAtSaw, flagSetAt>>
    /\ UNCHANGED failed
    /\ UNCHANGED <<modelRef, staleRead>>
    /\ UNCHANGED apiVars
    /\ UNCHANGED extVars

\* Mutant of DropHandle: the handle is closed on the Ok path only (an error
\* return leaks it).
DropHandleOnlyOnOk ==
    /\ pc = "drop_handle"
    /\ IF handle = "open" /\ result = "ok"
          THEN /\ handle' = "closed"
               /\ handleCloses' = handleCloses + 1
               /\ solver' = "closed"
          ELSE UNCHANGED <<handle, handleCloses, solver>>
    /\ pc' = "drop_control"
    /\ UNCHANGED <<result, stop_flag, rxOpen, chan, control, produced,
                   controlFrees, cancelCalls, sawStop, nmAtSaw, flagSetAt>>
    /\ UNCHANGED failed
    /\ UNCHANGED <<modelRef, staleRead>>
    /\ UNCHANGED apiVars
    /\ UNCHANGED extVars

\* End of scope of `handle`: impl Drop for SolveHandle (solve_handle.rs:83-89)
\* runs iff the local was initialised.
DropHandle ==
    /\ pc = "drop_handle"
    /\ IF handle = "open"
          THEN /\ handle' = "closed"
               /\ handleCloses' = handleCloses + 1
               /\ solver' = "closed"
          ELSE UNCHANGED <<handle, handleCloses, solver>>
    /\ pc' = "drop_control"
    /\ UNCHANGED <<result, stop_flag, rxOpen, chan, control, produced,
                   controlFrees, cancelCalls, sawStop, nmAtSaw, flagSetAt>>
    /\ UNCHANGED failed
    /\ UNCHANGED <<modelRef, staleRead>>
    /\ UNCHANGED apiVars
    /\ UNCHANGED extVars

\* End of scope of `control`: impl Drop for Control (control.rs:196-202) runs
\* iff the local was initialised.
DropControl ==
    /\ pc = "drop_control"
    /\ IF control = "live"
          THEN /\ control' = "freed"
               /\ controlFrees' = controlFrees + 1
          ELSE UNCHANGED <<control, controlFrees>>
    /\ pc' = "report"
    /\ UNCHANGED <<result, stop_flag, rxOpen, chan, handle, solver, produced,
                   handleCloses, cancelCalls, sawStop, nmAtSaw, flagSetAt>>
    /\ UNCHANGED failed
    /\ UNCHANGED <<modelRef, staleRead>>
    /\ UNCHANGED apiVars
    /\ UNCHANGED extVars

\* worker.rs:52-57  the thread's closure: an Err is reported as Error; then the
\* thread exits and its sender is dropped.
Report ==
    /\ pc = "report"
    /\ chan' = IF result = "err" THEN Sent(Error) ELSE chan
    /\ pc' = "done"
    /\ UNCHANGED <<result, stop_flag, rxOpen, control, handle, solver, produced,
                   controlFrees, handleCloses, cancelCalls, sawStop, nmAtSaw,
                   flagSetAt>>
    /\ UNCHANGED failed
    /\ UNCHANGED <<modelRef, staleRead>>
    /\ UNCHANGED apiVars
    /\ UNCHANGED extVars

\* The worker thread has exited: its UnboundedSender is gone, so the channel
\* is closed for the receiver.
SenderDropped == pc = "done"

\* Every step of the worker thread.
Worker ==
    \/ SendSetup \/ BuildInstance \/ WriteInstance \/ ControlNew \/ LoadInstance \/ LoadEncoding
    \/ SendGrounding \/ Ground \/ CheckStopAfterGround \/ SendSolving \/ Solve
    \/ LoopCheck \/ Cancel \/ SendFinishedStop \/ Wait \/ GetModel \/ Decode
    \/ SendNewModel \/ Resume \/ SendFinished \/ SendError
    \/ DropHandle \/ DropControl \/ Report

WorkerInit ==
    /\ pc = "setup"
    /\ result = "none"
    /\ stop_flag = FALSE
    /\ rxOpen = TRUE
    /\ chan = <<>>
    /\ control = "none"
    /\ handle = "none"
    /\ solver = "idle"
    /\ produced = 0
    /\ controlFrees = 0
    /\ handleCloses = 0
    /\ cancelCalls = 0
    /\ sawStop = "no"
    /\ nmAtSaw = 0
    /\ flagSetAt = -1
    /\ failed = FALSE
    /\ modelRef = 0
    /\ staleRead = FALSE

ApiIdle ==
    /\ sessions = [i \in 1..MaxSessions |-> "none"]
    /\ openHandle = 0
    /\ handleState = "none"
    /\ apiCloses = 0
    /\ apiFrees = [i \in 1..MaxSessions |-> 0]
    /\ heldModel = [of |-> 0, valid |-> FALSE]
    /\ misuse = FALSE
    /\ apiSearch = "idle"

DataIdle ==
    /\ template = <<>>
    /\ items = {}
    /\ chosen_items = <<>>
    /\ new_template = <<>>
    /\ mk = 0
    /\ dpc = "off"
    /\ dchan = <<>>
    /\ stored = <<>>
    /\ rcvd = 0
    /\ cpc = "off"
    /\ lock = "free"
    /\ gpc = "off"
    /\ gop = [kind |-> "none", slot |-> 0, item |-> 0]
    /\ edits = 0
    /\ wrote = "none"

ClientIdle ==
    /\ ready = [val |-> "unset", after |-> 0]
    /\ lastResult = {}

\* No session operation called, no call in progress, no run started.
MoreIdle ==
    /\ ops = <<>>
    /\ writeErr = FALSE
    /\ nmAtSet = -1
    /\ call = [fn |-> "none"]
    /\ ret = [tag |-> "none"]
    /\ natives = <<>>
    /\ engine = {}
    /\ ui_state = "Idle"
    /\ stop_signal = 0
    /\ runs = <<>>
    /\ started = 0
    /\ file = 0

ExtIdle == ClientIdle /\ DataIdle /\ MoreIdle

Init == WorkerInit /\ ApiIdle /\ ExtIdle

Next ==
    \/ Worker
    \/ StoreStopFlag
    \/ DropReceiver
    \/ SolverFindsModel
    \/ SolverExhausts

Spec == Init /\ [][Next]_vars

\* The operating system keeps scheduling the worker thread, and every native
\* call and bounded wait it makes returns.
FairSpec == Init /\ [][Next]_vars /\ WF_vars(Worker)

\* As FairSpec, and the native search makes progress: the search of a valid
\* (finite, ground) program yields its next model or runs out of models.
FairSolveSpec ==
    /\ Init /\ [][Next]_vars
    /\ WF_vars(Worker)
    /\ WF_vars(SolverFindsModel \/ SolverExhausts)

(***************************************************************************)
(* A client of the public API of Control, SolveHandle and Model             *)
(* (control.rs, solve_handle.rs, model.rs).  Owned values (Control, the    *)
(* SolveHandle inside Control::solve) can be used only while they are      *)
(* alive and are dropped once; Model is `Clone, Copy` and carries no       *)
(* lifetime, so the client may keep a copy of it for as long as it likes.  *)
(***************************************************************************)

Live(i) == sessions[i] \in {"created", "loaded", "grounded"}

\* The client is not inside a (blocking) Control::solve call.
ClientFree == openHandle = 0

\* control.rs:37-62  Control::new(); a failure creates nothing.
ApiControlNew(i) ==
    /\ ClientFree
    /\ sessions[i] = "none"
    /\ i > 1 => sessions[i-1] # "none"
    /\ sessions' = [sessions EXCEPT ![i] = "created"]
    /\ UNCHANGED <<openHandle, handleState, apiCloses, apiFrees, heldModel, misuse>>
    /\ UNCHANGED apiSearch
    /\ UNCHANGED workerVars
    /\ UNCHANGED extVars

\* control.rs:75-87  Control::load(&self, file)
ApiLoad(i) ==
    /\ ClientFree
    /\ sessions[i] \in {"created", "loaded"}
    /\ sessions' = [sessions EXCEPT ![i] = "loaded"]
    /\ UNCHANGED <<openHandle, handleState, apiCloses, apiFrees, heldModel, misuse>>
    /\ UNCHANGED apiSearch
    /\ UNCHANGED workerVars
    /\ UNCHANGED extVars

\* control.rs:97-123  Control::ground(&self); the order of load and ground is
\* not validated.
ApiGround(i) ==
    /\ ClientFree
    /\ sessions[i] \in {"created", "loaded"}
    /\ sessions' = [sessions EXCEPT ![i] = "grounded"]
    /\ UNCHANGED <<openHandle, handleState, apiCloses, apiFrees, heldModel, misuse>>
    /\ UNCHANGED apiSearch
    /\ UNCHANGED workerVars
    /\ UNCHANGED extVars

\* control.rs:136-164  Control::solve(&self, event_handler) up to
\* SolveHandle::new(handle_inner): the native handle exists.
ApiSolveBegin(i) ==
    /\ ClientFree
    /\ Live(i)
    /\ openHandle' = i
    /\ handleState' = "open"
    /\ apiCloses' = 0
    /\ UNCHANGED <<sessions, apiFrees, heldModel, misuse>>
    /\ apiSearch' = "running"
    /\ UNCHANGED workerVars
    /\ UNCHANGED extVars

\* control.rs:229-243  unsafe_solve_callback, event type 0: the handler is
\* called with a Model wrapping the engine's current model.
ApiCallbackEnter ==
    /\ handleState = "open"
    /\ apiSearch = "running"
    /\ handleState' = "callback"
    /\ UNCHANGED <<sessions, openHandle, apiCloses, apiFrees, heldModel, misuse>>
    /\ UNCHANGED apiSearch
    /\ UNCHANGED workerVars
    /\ UNCHANGED extVars

\* model.rs:15-16  #[derive(Clone, Copy)] struct Model(NonNull<..>): the
\* handler copies the Model out of the `&mut Model` it was given.
ApiHandlerCopiesModel ==
    /\ handleState = "callback"
    /\ heldModel' = [of |-> openHandle, valid |-> TRUE]
    /\ UNCHANGED <<sessions, openHandle, handleState, apiCloses, apiFrees, misuse>>
    /\ UNCHANGED apiSearch
    /\ UNCHANGED workerVars
    /\ UNCHANGED extVars

\* control.rs:241  the handler returns: the engine's model is valid only for
\* the time of the callback.
ApiCallbackReturn ==
    /\ handleState = "callback"
    /\ handleState' = "open"
    /\ heldModel' = IF heldModel.of = openHandle
                       THEN [heldModel EXCEPT !.valid = FALSE]
                       ELSE heldModel
    /\ UNCHANGED <<sessions, openHandle, apiCloses, apiFrees, misuse>>
    /\ UNCHANGED apiSearch
    /\ UNCHANGED workerVars
    /\ UNCHANGED extVars

\* The native search of the solve in progress comes to its end.
ApiSearchFinishes ==
    /\ handleState = "open"
    /\ apiSearch = "running"
    /\ apiSearch' = "finished"
    /\ UNCHANGED <<sessions, openHandle, handleState, apiCloses, apiFrees,
                   heldModel, misuse>>
    /\ UNCHANGED workerVars
    /\ UNCHANGED extVars

\* control.rs:166-169 and solve_handle.rs:69-89: real_handle.get() "blocks
\* until a result is available"; then (Ok or Err) `real_handle` leaves scope
\* and is closed, and solve returns a SolveResult, not a handle.
ApiSolveEnd ==
    /\ handleState = "open"
    /\ apiSearch = "finished"
    /\ handleState' = "closed"
    /\ apiSearch' = "idle"
    /\ apiCloses' = apiCloses + 1
    /\ openHandle' = 0
    /\ UNCHANGED <<sessions, apiFrees, heldModel, misuse>>
    /\ UNCHANGED workerVars
    /\ UNCHANGED extVars

\* model.rs:38-92  Model::number / Model::symbols on the copy the client
\* holds: a native read through the stored pointer.
ApiUseModel ==
    /\ heldModel.of # 0
    /\ ClientFree \/ handleState = "callback"
    /\ misuse' = (misuse \/ ~heldModel.valid)
    /\ UNCHANGED <<sessions, openHandle, handleState, apiCloses, apiFrees, heldModel>>
    /\ UNCHANGED apiSearch
    /\ UNCHANGED workerVars
    /\ UNCHANGED extVars

\* control.rs:196-202  impl Drop for Control: the owner goes out of scope.
ApiDropControl(i) ==
    /\ ClientFree
    /\ Live(i)
    /\ sessions' = [sessions EXCEPT ![i] = "freed"]
    /\ apiFrees' = [apiFrees EXCEPT ![i] = @ + 1]
    /\ UNCHANGED <<openHandle, handleState, apiCloses, heldModel, misuse>>
    /\ UNCHANGED apiSearch
    /\ UNCHANGED workerVars
    /\ UNCHANGED extVars

ApiNext ==
    \/ \E i \in 1..MaxSessions : ApiControlNew(i)
    \/ \E i \in 1..MaxSessions : ApiLoad(i)
    \/ \E i \in 1..MaxSessions : ApiGround(i)
    \/ \E i \in 1..MaxSessions : ApiSolveBegin(i)
    \/ ApiCallbackEnter
    \/ ApiHandlerCopiesModel
    \/ ApiCallbackReturn
    \/ ApiSearchFinishes
    \/ ApiSolveEnd
    \/ ApiUseModel
    \/ \E i \in 1..MaxSessions : ApiDropControl(i)

ApiSpec == Init /\ [][ApiNext]_vars

(***************************************************************************)
(* A client of a solve handle: the calls worker.rs makes on `handle`       *)
(* (wait, model, resume, cancel) and SolveHandle::get, in any order, on    *)
(* the handle of a solve that has just been started.                       *)
(***************************************************************************)

HandleInit ==
    /\ pc = "client"
    /\ result = "none"
    /\ stop_flag = FALSE
    /\ rxOpen = TRUE
    /\ chan = <<>>
    /\ control = "live"
    /\ handle = "open"
    /\ solver = "searching"
    /\ produced = 0
    /\ controlFrees = 0
    /\ handleCloses = 0
    /\ cancelCalls = 0
    /\ sawStop = "no"
    /\ nmAtSaw = 0
    /\ flagSetAt = -1
    /\ failed = FALSE
    /\ modelRef = 0
    /\ staleRead = FALSE
    /\ ApiIdle
    /\ ExtIdle

HandleLive == pc = "client" /\ handle = "open"

\* handle.wait(timeout)
HWait ==
    /\ HandleLive
    /\ ready' = [val |-> IF WaitReady THEN "ready" ELSE "timeout", after |-> cancelCalls]
    /\ UNCHANGED <<workerVars, apiVars, lastResult, dataVars, moreVars>>

\* solve_handle.rs:40-58  SolveHandle::model: Some while a model is pending,
\* None otherwise, Err when the native call fails.
HModel ==
    /\ HandleLive
    /\ \E ok \in BOOLEAN :
       /\ failed' = (failed \/ ~ok)
       /\ modelRef' = IF ok /\ solver = "model" THEN produced ELSE 0
    /\ UNCHANGED <<pc, result, stop_flag, rxOpen, chan, control, handle, solver,
                   produced, controlFrees, handleCloses, cancelCalls, sawStop,
                   nmAtSaw, flagSetAt, staleRead>>
    /\ UNCHANGED <<apiVars, clientVars, dataVars, moreVars>>

\* handle.resume()
HResume ==
    /\ HandleLive
    /\ \E ok \in BOOLEAN :
       /\ failed' = (failed \/ ~ok)
       /\ solver' = IF ok THEN AfterResume ELSE solver
    /\ UNCHANGED <<pc, result, stop_flag, rxOpen, chan, control, handle,
                   produced, controlFrees, handleCloses, cancelCalls, sawStop,
                   nmAtSaw, flagSetAt, modelRef, staleRead>>
    /\ UNCHANGED <<apiVars, clientVars, dataVars, moreVars>>

\* handle.cancel()
HCancel ==
    /\ HandleLive
    /\ cancelCalls < MaxCancels
    /\ solver' = AfterCancel
    /\ cancelCalls' = cancelCalls + 1
    /\ UNCHANGED <<pc, result, stop_flag, rxOpen, chan, control, handle,
                   produced, controlFrees, handleCloses, sawStop, nmAtSaw,
                   flagSetAt, failed, modelRef, staleRead>>
    /\ UNCHANGED <<apiVars, clientVars, dataVars, moreVars>>

\* solve_handle.rs:69-80  SolveHandle::get: "blocks until a result is
\* available", then decodes the result bits into SolveResult flags.
HGet ==
    /\ HandleLive
    /\ WaitReady
    /\ \E ok \in BOOLEAN :
       /\ failed' = (failed \/ ~ok)
       /\ lastResult' = IF ok THEN EngineResult ELSE lastResult
    /\ UNCHANGED <<pc, result, stop_flag, rxOpen, chan, control, handle, solver,
                   produced, controlFrees, handleCloses, cancelCalls, sawStop,
                   nmAtSaw, flagSetAt, modelRef, staleRead>>
    /\ UNCHANGED <<apiVars, ready, dataVars, moreVars>>

\* solve_handle.rs:83-89  impl Drop for SolveHandle
HDrop ==
    /\ HandleLive
    /\ handle' = "closed"
    /\ handleCloses' = handleCloses + 1
    /\ solver' = "closed"
    /\ pc' = "dropped"
    /\ UNCHANGED <<result, stop_flag, rxOpen, chan, control, produced,
                   controlFrees, cancelCalls, sawStop, nmAtSaw, flagSetAt,
                   failed, modelRef, staleRead>>
    /\ UNCHANGED <<apiVars, clientVars, dataVars, moreVars>>

HandleNext ==
    \/ HWait \/ HModel \/ HResume \/ HCancel \/ HGet \/ HDrop
    \/ SolverFindsModel \/ SolverExhausts

HandleSpec == HandleInit /\ [][HandleNext]_vars

(***************************************************************************)
(* The data of one run: the worker decodes the atoms of a model into       *)
(* chosen_items, merges them into a clone of its input template and sends  *)
(* the clone (worker.rs:112-127, 154-189); the consumer task stores the    *)
(* template it receives (inventory.rs:149-174); the user equips and        *)
(* unequips items meanwhile (item_selection_modal.rs:59-69,                *)
(* inventory_slot.rs:62-72).  An item is represented by its id, a Template *)
(* by its `slots` map (a function from the filled slots to items).         *)
(***************************************************************************)

\* item_slot.rs:14-87  two of the slot kinds, by their ids (Head, Hands).
SlotKinds == {21, 22}

\* Ids of the items that exist.
ItemIds == {1, 2}

\* Numbers the solver may put as first argument of slot_chosen: the declared
\* slot ids, an undeclared one, and one above the 16-bit range.
SlotNumbers == {21, 22, 99, 65557}

Templates == UNION {[D -> ItemIds] : D \in SUBSET SlotKinds}

\* template.rs:47-49  slots.insert(slot, item)
Insert(t, s, i) == [x \in DOMAIN t \cup {s} |-> IF x = s THEN i ELSE t[x]]

\* Template::remove_item, as called by inventory_slot.rs:70
Remove(t, s) == [x \in DOMAIN t \ {s} |-> t[x]]

\* worker.rs:182  `slot_number as u16`: the low 16 bits of the number.
AsU16(n) == n % 65536

\* worker.rs:182-183  ItemSlot::from_repr(..) is Some for the declared ids.
ValidRepr(n) == AsU16(n) \in SlotKinds

\* The atoms model.symbols(2) may return, as chosen_items_from_model tells
\* them apart: "other" is skipped (not a function, or another name), "bad" is
\* a slot_chosen with a missing or non-numeric argument.
Symbols ==
    {[kind |-> "other"], [kind |-> "bad"]} \cup
    {[kind |-> "chosen", slot |-> n, item |-> i] : n \in SlotNumbers, i \in ItemIds}

\* OptimizeStatus::NewModel(new_template)
NewModelT(t) == [tag |-> "NewModel", template |-> t]

\* worker.rs:118-122 as a whole: the loop over chosen_items from index k on.
RECURSIVE MergeFrom(_, _, _, _)
MergeFrom(t, cat, f, k) ==
    IF k > Len(f) THEN t
    ELSE MergeFrom(IF f[k][2] \in cat THEN Insert(t, f[k][1], f[k][2]) ELSE t,
                   cat, f, k + 1)

\* inventory.rs:119-147: the run starts with a clone of the stored template
\* and of the item list, a fresh channel and a consumer task waiting on it.
DataInit ==
    /\ WorkerInit /\ ApiIdle /\ ClientIdle /\ MoreIdle
    /\ template \in Templates
    /\ items \in SUBSET ItemIds
    /\ chosen_items = <<>>
    /\ new_template = <<>>
    /\ mk = 0
    /\ dpc = "idle"
    /\ dchan = <<>>
    /\ stored = template
    /\ rcvd = 0
    /\ cpc = "recv"
    /\ lock = "free"
    /\ gpc = "idle"
    /\ gop = [kind |-> "none", slot |-> 0, item |-> 0]
    /\ edits = 0
    /\ wrote = "none"

restVars == <<workerVars, apiVars, clientVars, moreVars>>

sideVars == <<stored, rcvd, cpc, lock, gpc, gop, edits, wrote>>

\* worker.rs:112  Ok(Some(model_ref)): a model is there to be decoded.
ModelArrives ==
    /\ dpc = "idle"
    /\ Count(dchan, "NewModel") < MaxDataModels
    /\ dpc' = "decode"
    /\ chosen_items' = <<>>
    /\ UNCHANGED <<template, items, new_template, mk, dchan>>
    /\ UNCHANGED <<sideVars, restVars>>

\* worker.rs:157-186  one turn of the loop of chosen_items_from_model (or the
\* failure of model.symbols(2), arguments() or number() on the way).
DecodeSymbol ==
    /\ dpc = "decode"
    /\ \E sym \in Symbols :
         IF sym.kind = "chosen" /\ ValidRepr(sym.slot)
            THEN /\ Len(chosen_items) < MaxFacts
                 /\ chosen_items' = Append(chosen_items, <<AsU16(sym.slot), sym.item>>)
                 /\ dpc' = dpc
            ELSE /\ sym.kind # "other"
                 /\ dpc' = "error"
                 /\ chosen_items' = chosen_items
    /\ UNCHANGED <<template, items, new_template, mk, dchan>>
    /\ UNCHANGED <<sideVars, restVars>>

\* Mutant of CloneTemplate: the new template starts from the template sent
\* for the model before, if there is one.
CloneTemplateOfLastModel ==
    /\ dpc = "decode"
    /\ new_template' = IF dchan = <<>> THEN template ELSE dchan[Len(dchan)].template
    /\ mk' = 1
    /\ dpc' = "merge"
    /\ UNCHANGED <<template, items, chosen_items, dchan>>
    /\ UNCHANGED <<sideVars, restVars>>

\* Mutant of CloneTemplate: the new template starts empty.
CloneTemplateEmpty ==
    /\ dpc = "decode"
    /\ new_template' = <<>>
    /\ mk' = 1
    /\ dpc' = "merge"
    /\ UNCHANGED <<template, items, chosen_items, dchan>>
    /\ UNCHANGED <<sideVars, restVars>>

\* worker.rs:114-116  Ok(items) is returned; let mut new_template =
\* template.clone();
CloneTemplate ==
    /\ dpc = "decode"
    /\ new_template' = template
    /\ mk' = 1
    /\ dpc' = "merge"
    /\ UNCHANGED <<template, items, chosen_items, dchan>>
    /\ UNCHANGED <<sideVars, restVars>>

\* Mutant of MergeOne: an entry that is already there is kept
\* (entry().or_insert instead of insert).
MergeOneKeepsEntry ==
    /\ dpc = "merge"
    /\ mk <= Len(chosen_items)
    /\ LET slot == chosen_items[mk][1]
           item_id == chosen_items[mk][2]
       IN  new_template' = IF item_id \in items /\ slot \notin DOMAIN new_template
                              THEN Insert(new_template, slot, item_id)
                              ELSE new_template
    /\ mk' = mk + 1
    /\ UNCHANGED <<template, items, chosen_items, dpc, dchan>>
    /\ UNCHANGED <<sideVars, restVars>>

\* worker.rs:118-122  one turn of `for (slot, item_id) in chosen_items`.
MergeOne ==
    /\ dpc = "merge"
    /\ mk <= Len(chosen_items)
    /\ LET slot == chosen_items[mk][1]
           item_id == chosen_items[mk][2]
       IN  new_template' = IF item_id \in items
                              THEN Insert(new_template, slot, item_id)
                              ELSE new_template
    /\ mk' = mk + 1
    /\ UNCHANGED <<template, items, chosen_items, dpc, dchan>>
    /\ UNCHANGED <<sideVars, restVars>>

\* worker.rs:124-126  status_sender.send(NewModel(new_template))?; resume
SendTemplate ==
    /\ dpc = "merge"
    /\ mk > Len(chosen_items)
    /\ dchan' = Append(dchan, NewModelT(new_template))
    /\ dpc' = "idle"
    /\ UNCHANGED <<template, items, chosen_items, new_template, mk>>
    /\ UNCHANGED <<sideVars, restVars>>

\* worker.rs:103-106, 128-131  the run ends with Finished.
SendFinishedData ==
    /\ dpc = "idle"
    /\ dchan' = Append(dchan, Finished)
    /\ dpc' = "done"
    /\ UNCHANGED <<template, items, chosen_items, new_template, mk>>
    /\ UNCHANGED <<sideVars, restVars>>

\* worker.rs:114 `?` and worker.rs:52-57: the decoding error leaves
\* run_optimization_logic and is reported as Error.
SendErrorData ==
    /\ dpc = "error"
    /\ dchan' = Append(dchan, Error)
    /\ dpc' = "done"
    /\ UNCHANGED <<template, items, chosen_items, new_template, mk>>
    /\ UNCHANGED <<sideVars, restVars>>

DataWorker ==
    \/ ModelArrives \/ DecodeSymbol \/ CloneTemplate \/ MergeOne
    \/ SendTemplate \/ SendFinishedData \/ SendErrorData

pipeVars == <<template, items, chosen_items, new_template, mk, dpc, dchan>>

\* inventory.rs:149  spawn(async move { .. }): the consumer task is polled by
\* the UI thread, which also runs the event handlers, one at a time; between
\* two awaits the task is not interleaved with a handler, nor a handler with
\* the task.
TaskTurn == gpc \in {"idle", "off"}

HandlerTurn == cpc \in {"recv", "ended"}

\* The message rx.recv() hands to the consumer next.
NextMsg == dchan[rcvd + 1]

\* inventory.rs:158-159  NewModel(new_template): template.lock()
ConsumerLock ==
    /\ cpc = "recv"
    /\ TaskTurn
    /\ rcvd < Len(dchan)
    /\ NextMsg.tag = "NewModel"
    /\ lock = "free"
    /\ lock' = "consumer"
    /\ cpc' = "locked"
    /\ UNCHANGED <<stored, rcvd, gpc, gop, edits, wrote>>
    /\ UNCHANGED <<pipeVars, restVars>>

\* inventory.rs:160  *guard = Some(new_template);
ConsumerStore ==
    /\ cpc = "locked"
    /\ stored' = NextMsg.template
    /\ wrote' = "replace"
    /\ cpc' = "stored"
    /\ UNCHANGED <<rcvd, lock, gpc, gop, edits>>
    /\ UNCHANGED <<pipeVars, restVars>>

\* inventory.rs:161  the guard is dropped; the loop receives again.
ConsumerUnlock ==
    /\ cpc = "stored"
    /\ lock' = "free"
    /\ rcvd' = rcvd + 1
    /\ cpc' = "recv"
    /\ UNCHANGED <<stored, gpc, gop, edits, wrote>>
    /\ UNCHANGED <<pipeVars, restVars>>

\* Mutant of ConsumerOther: a terminal message resets the stored template.
ConsumerOtherResets ==
    /\ cpc = "recv"
    /\ TaskTurn
    /\ rcvd < Len(dchan)
    /\ NextMsg.tag # "NewModel"
    /\ rcvd' = rcvd + 1
    /\ stored' = <<>>
    /\ UNCHANGED <<cpc, lock, gpc, gop, edits, wrote>>
    /\ UNCHANGED <<pipeVars, restVars>>

\* inventory.rs:151-157, 163-171  Setup, Grounding, Solving, Finished and
\* Error change ui_state and stop_flag only.
ConsumerOther ==
    /\ cpc = "recv"
    /\ TaskTurn
    /\ rcvd < Len(dchan)
    /\ NextMsg.tag # "NewModel"
    /\ rcvd' = rcvd + 1
    /\ UNCHANGED <<stored, cpc, lock, gpc, gop, edits, wrote>>
    /\ UNCHANGED <<pipeVars, restVars>>

\* inventory.rs:149, 173  recv() returns None: the sender is gone and the
\* channel is drained; the task ends.
ConsumerEnds ==
    /\ cpc = "recv"
    /\ TaskTurn
    /\ rcvd = Len(dchan)
    /\ dpc = "done"
    /\ cpc' = "ended"
    /\ UNCHANGED <<stored, rcvd, lock, gpc, gop, edits, wrote>>
    /\ UNCHANGED <<pipeVars, restVars>>

Consumer ==
    \/ ConsumerLock \/ ConsumerStore \/ ConsumerUnlock
    \/ ConsumerOther \/ ConsumerEnds

\* item_selection_modal.rs:59-61  handle_select with a selected item.
GuiSelect(s, i) ==
    /\ gpc = "idle"
    /\ HandlerTurn
    /\ edits < MaxEdits
    /\ edits' = edits + 1
    /\ gop' = [kind |-> "select", slot |-> s, item |-> i]
    /\ gpc' = "called"
    /\ UNCHANGED <<stored, rcvd, cpc, lock, wrote>>
    /\ UNCHANGED <<pipeVars, restVars>>

\* inventory_slot.rs:62-65  remove_item
GuiRemove(s) ==
    /\ gpc = "idle"
    /\ HandlerTurn
    /\ edits < MaxEdits
    /\ edits' = edits + 1
    /\ gop' = [kind |-> "remove", slot |-> s, item |-> 0]
    /\ gpc' = "called"
    /\ UNCHANGED <<stored, rcvd, cpc, lock, wrote>>
    /\ UNCHANGED <<pipeVars, restVars>>

\* Mutant of GuiLock: the handler goes on without the mutex.
GuiLockSkipped ==
    /\ gpc = "called"
    /\ gpc' = "locked"
    /\ UNCHANGED <<stored, rcvd, cpc, lock, gop, edits, wrote>>
    /\ UNCHANGED <<pipeVars, restVars>>

\* item_selection_modal.rs:62, inventory_slot.rs:67  state.template.lock()
GuiLock ==
    /\ gpc = "called"
    /\ lock = "free"
    /\ lock' = "gui"
    /\ gpc' = "locked"
    /\ UNCHANGED <<stored, rcvd, cpc, gop, edits, wrote>>
    /\ UNCHANGED <<pipeVars, restVars>>

\* item_selection_modal.rs:63-65  template.set_item(slot_type, item);
\* inventory_slot.rs:68-70  template.remove_item(&slot_type): the entry of one
\* slot of the stored template is written in place.
GuiWrite ==
    /\ gpc = "locked"
    /\ stored' = IF gop.kind = "select" THEN Insert(stored, gop.slot, gop.item)
                                        ELSE Remove(stored, gop.slot)
    /\ wrote' = "in_place"
    /\ gpc' = "written"
    /\ UNCHANGED <<rcvd, cpc, lock, gop, edits>>
    /\ UNCHANGED <<pipeVars, restVars>>

\* item_selection_modal.rs:66, inventory_slot.rs:71  the guard is dropped.
GuiUnlock ==
    /\ gpc = "written"
    /\ lock' = IF lock = "gui" THEN "free" ELSE lock
    /\ gpc' = "idle"
    /\ UNCHANGED <<stored, rcvd, cpc, gop, edits, wrote>>
    /\ UNCHANGED <<pipeVars, restVars>>

Gui ==
    \/ \E s \in SlotKinds, i \in ItemIds : GuiSelect(s, i)
    \/ \E s \in SlotKinds : GuiRemove(s)
    \/ GuiLock \/ GuiWrite \/ GuiUnlock

DataNext == DataWorker \/ Consumer

DataSpec == DataInit /\ [][DataNext]_vars

\* worker.rs:116-124 seen from the consumer's side: some template arrives.
SendAnyTemplate ==
    /\ dpc = "idle"
    /\ Count(dchan, "NewModel") < MaxDataModels
    /\ \E t \in Templates : dchan' = Append(dchan, NewModelT(t))
    /\ UNCHANGED <<template, items, chosen_items, new_template, mk, dpc>>
    /\ UNCHANGED <<sideVars, restVars>>

\* The stored template with its writers: the consumer task and the GUI
\* handlers, while a worker sends templates.  The run starts from a template
\* with one slot filled and one empty.
GuiInit == DataInit /\ items = ItemIds /\ DOMAIN template = {21}

GuiNext == SendAnyTemplate \/ SendFinishedData \/ Consumer \/ Gui

GuiSpec == GuiInit /\ [][GuiNext]_vars

\* The run itself with its consumer task and the equip and unequip handlers.
EditNext == DataWorker \/ Consumer \/ Gui

EditSpec == GuiInit /\ [][EditNext]_vars

(***************************************************************************)
(* Single calls of the wrapper functions and of the atom builders: the     *)
(* accessors of Symbol (symbol.rs:49-135), SolveHandle::get                *)
(* (solve_handle.rs:69-80), Control::load (control.rs:75-87),              *)
(* Configuration::set_key_to_value (configuration.rs:74-108), item_atoms   *)
(* and slot_atoms (instance.rs:21-44, 113-126).  `call` holds the function *)
(* and its argument, `ret` what it returned.                               *)
(***************************************************************************)

\* Result<T, E>
Ok(v) == [tag |-> "Ok", val |-> v]

Err(e) == [tag |-> "Err", err |-> e]

\* Sequences over S of length at most n.
SeqsUpTo(S, n) == UNION {[1..k -> S] : k \in 0..n}

\* No call has been made yet.
NoCall == call = [fn |-> "none"]

callRest == <<workerVars, apiVars, clientVars, dataVars, traceVars, runsVars>>

\* Values of clingo_symbol_type: the five the wrapper knows (symbol.rs:17-25)
\* and three it does not.
NativeTypes == 0..7

\* Numbers a symbol may hold.
Numbers == {-1, 0, 21}

\* A function symbol's name: the native call may hand back a null pointer.
FunctionNames == {"null", "", "slot_chosen"}

\* Largest number of arguments of a function symbol.
MaxArgs == 2

\* A clingo_symbol_t: its native type and what the engine holds for it.
NativeSymbols ==
    {[type |-> t, num |-> 0, name |-> "null", args |-> <<>>] : t \in NativeTypes \ {1, 5}}
    \cup {[type |-> 1, num |-> n, name |-> "null", args |-> <<>>] : n \in Numbers}
    \cup {[type |-> 5, num |-> 0, name |-> nm, args |-> a] :
             nm \in FunctionNames, a \in SeqsUpTo({1, 21}, MaxArgs)}

\* symbol.rs:49-59  Symbol::kind
kind(sym) ==
    CASE sym.type = 0 -> "Infimum"
      [] sym.type = 1 -> "Number"
      [] sym.type = 4 -> "String"
      [] sym.type = 5 -> "Function"
      [] sym.type = 7 -> "Supremum"
      [] OTHER -> "Unknown"

\* clingo_symbol_number, clingo_symbol_name, clingo_symbol_arguments return
\* false exactly when the symbol is not of the type they are for.
NativeAccepts(sym, type) == sym.type = type

\* Mutant of number: the kind is not looked at before the native call.
numberUnguarded(sym) ==
    IF ~NativeAccepts(sym, 1) THEN Err("Internal")
    ELSE Ok(sym.num)

\* symbol.rs:68-81  Symbol::number
number(sym) ==
    IF kind(sym) # "Number" THEN Err("TypeError")
    ELSE IF ~NativeAccepts(sym, 1) THEN Err("Internal")
    ELSE Ok(sym.num)

\* symbol.rs:90-106  Symbol::name
name(sym) ==
    IF kind(sym) # "Function" THEN Err("TypeError")
    ELSE IF ~NativeAccepts(sym, 5) THEN Err("Internal")
    ELSE IF sym.name = "null" THEN Ok("")
    ELSE Ok(sym.name)

\* symbol.rs:115-134  Symbol::arguments
arguments(sym) ==
    IF kind(sym) # "Function" THEN Err("TypeError")
    ELSE IF ~NativeAccepts(sym, 5) THEN Err("Internal")
    ELSE IF Len(sym.args) = 0 THEN Ok(<<>>)
    ELSE Ok(sym.args)

CallNumber ==
    /\ NoCall
    /\ \E sym \in NativeSymbols :
         /\ call' = [fn |-> "number", sym |-> sym]
         /\ ret' = number(sym)
    /\ UNCHANGED <<natives, engine>>
    /\ UNCHANGED callRest

CallName ==
    /\ NoCall
    /\ \E sym \in NativeSymbols :
         /\ call' = [fn |-> "name", sym |-> sym]
         /\ ret' = name(sym)
    /\ UNCHANGED <<natives, engine>>
    /\ UNCHANGED callRest

CallArguments ==
    /\ NoCall
    /\ \E sym \in NativeSymbols :
         /\ call' = [fn |-> "arguments", sym |-> sym]
         /\ ret' = arguments(sym)
    /\ UNCHANGED <<natives, engine>>
    /\ UNCHANGED callRest

\* Width of the result words enumerated: the four flag bits and one more.
WordBits == 5

ResultWords == 0..(2^WordBits - 1)

\* solve_result.rs:17-24  the flags of SolveResult and the bit each one is
\* (the values of clingo_solve_result_e: 1, 2, 4, 8).
FlagBit ==
    [Satisfiable |-> 0, Unsatisfiable |-> 1, Exhausted |-> 2, Interrupted |-> 3]

Flags == DOMAIN FlagBit

\* Bit k of word w.
BitSet(w, k) == (w \div (2^k)) % 2 = 1

\* The flags whose bit is set in w.
FlagsIn(w) == {f \in Flags : BitSet(w, FlagBit[f])}

\* The bits of w that are no flag.
UnknownBits(w) ==
    {k \in 0..(WordBits - 1) : BitSet(w, k) /\ \A f \in Flags : FlagBit[f] # k}

\* Mutant of from_bits: unknown bits are dropped (from_bits_truncate).
from_bits_truncate(w) == Ok(FlagsIn(w))

\* solve_handle.rs:77  SolveResult::from_bits(result_bits) of bitflags: None
\* when a bit that is no flag is set.
from_bits(w) == IF UnknownBits(w) = {} THEN Ok(FlagsIn(w)) ELSE Err("None")

\* solve_handle.rs:69-80  SolveHandle::get, for the word the native call
\* writes and the outcome of the native call.
get(w, ok) ==
    IF ~ok THEN Err("Internal")
    ELSE IF from_bits(w).tag = "Ok" THEN from_bits(w)
    ELSE Err("Bindings")

CallGet ==
    /\ NoCall
    /\ \E w \in ResultWords, ok \in BOOLEAN :
         /\ call' = [fn |-> "get", word |-> w, ok |-> ok]
         /\ ret' = get(w, ok)
    /\ UNCHANGED <<natives, engine>>
    /\ UNCHANGED callRest

\* Longest text passed to load or set_key_to_value.
MaxTextLen == 2

\* Texts, as sequences of bytes: NUL, '/' and 'a'.
Texts == SeqsUpTo({0, 47, 97}, MaxTextLen)

\* CString::new: Err(NulError) when the text has an interior NUL byte.
HasNul(t) == \E i \in 1..Len(t) : t[i] = 0

\* configuration.rs:28  ConfigKey::SolveModels.as_str()
SolveModelsKey == "solve.models"

\* A native call, the text of the caller it was given (<<>>: none) and whether
\* it succeeded.
Native(f, t, ok) == [f |-> f, text |-> t, ok |-> ok]

\* Mutant of CallLoad: the path is handed to the engine as it is.
CallLoadUnchecked ==
    /\ NoCall
    /\ \E file_ \in Texts, success \in BOOLEAN :
         /\ call' = [fn |-> "load", text |-> file_]
         /\ natives' = <<Native("clingo_control_load", file_, success)>>
         /\ engine' = IF success THEN engine \cup {<<"program", file_>>}
                                 ELSE engine
         /\ ret' = IF success THEN Ok("unit") ELSE Err("Internal")
    /\ UNCHANGED callRest

\* control.rs:75-87  Control::load
CallLoad ==
    /\ NoCall
    /\ \E file_ \in Texts, success \in BOOLEAN :
         /\ call' = [fn |-> "load", text |-> file_]
         /\ IF HasNul(file_)
               THEN /\ ret' = Err("NulError")
                    /\ UNCHANGED <<natives, engine>>
               ELSE /\ natives' = <<Native("clingo_control_load", file_, success)>>
                    /\ engine' = IF success THEN engine \cup {<<"program", file_>>}
                                            ELSE engine
                    /\ ret' = IF success THEN Ok("unit") ELSE Err("Internal")
    /\ UNCHANGED callRest

\* configuration.rs:74-108  Configuration::set_key_to_value: the key name is
\* converted (it has no NUL) and looked up with clingo_configuration_map_at;
\* then the value is converted and set.
CallSetKeyToValue ==
    /\ NoCall
    /\ \E value \in Texts, cet_key_success \in BOOLEAN, set_value_success \in BOOLEAN :
         /\ call' = [fn |-> "set_key_to_value", text |-> value]
         /\ IF ~cet_key_success
               THEN /\ natives' = <<Native("clingo_configuration_map_at", <<>>, FALSE)>>
                    /\ ret' = Err("Internal")
                    /\ engine' = engine
            ELSE IF HasNul(value)
               THEN /\ natives' = <<Native("clingo_configuration_map_at", <<>>, TRUE)>>
                    /\ ret' = Err("NulError")
                    /\ engine' = engine
               ELSE /\ natives' = <<Native("clingo_configuration_map_at", <<>>, TRUE),
                                    Native("clingo_configuration_value_set", value,
                                           set_value_success)>>
                    /\ engine' = IF set_value_success
                                    THEN engine \cup {<<SolveModelsKey, value>>}
                                    ELSE engine
                    /\ ret' = IF set_value_success THEN Ok("unit") ELSE Err("Internal")
    /\ UNCHANGED callRest

\* Largest number of items in a candidate list.
MaxItems == 2

\* Items: the id, the name and the bonus values of an Item (item.rs:15-20).
Items == {[id |-> i, name |-> n, bonuses |-> b] :
             i \in ItemIds, n \in {"a"}, b \in {<<>>, <<5>>}}

\* The candidate lists get_items_by_class returns (item_sql.rs:114-210): the
\* rows are grouped by the primary key, so no two items of a list share an id.
ItemLists ==
    {l \in SeqsUpTo(Items, MaxItems) :
        \A i, j \in 1..Len(l) : l[i].id = l[j].id => i = j}

RECURSIVE Concat(_)
\* The concatenation of a sequence of sequences.
Concat(ss) == IF ss = <<>> THEN <<>> ELSE Head(ss) \o Concat(Tail(ss))

\* instance.rs:26-40  the facts written for the item at index k: item(id,
\* slot, name) and one item_bonus(id, stat, value) per bonus.  `src` is the
\* index of the item a fact was written for.
FactsOfItem(l, k) ==
    <<[pred |-> "item", id |-> l[k].id, value |-> 0, src |-> k]>>
    \o [b \in 1..Len(l[k].bonuses) |->
           [pred |-> "item_bonus", id |-> l[k].id, value |-> l[k].bonuses[b], src |-> k]]

\* instance.rs:21-44  item_atoms
item_atoms(l) == Concat([k \in 1..Len(l) |-> FactsOfItem(l, k)])

\* Mutant of find: the first item whose id is not the number is taken.
findOther(l, item_id) ==
    LET hits == {k \in 1..Len(l) : l[k].id # item_id}
    IN  IF hits = {} THEN 0 ELSE CHOOSE k \in hits : \A h \in hits : k <= h

\* worker.rs:119  items.iter().find(|i| i.id == item_id): the index of the
\* first item with that id (0: None).
find(l, item_id) ==
    LET hits == {k \in 1..Len(l) : l[k].id = item_id}
    IN  IF hits = {} THEN 0 ELSE CHOOSE k \in hits : \A h \in hits : k <= h

\* item_atoms(items), and for every fact written what the worker resolves a
\* slot_chosen atom with the id of that fact to.
CallItemAtoms ==
    /\ NoCall
    /\ \E l \in ItemLists :
         /\ call' = [fn |-> "item_atoms", items |-> l]
         /\ ret' = LET facts == item_atoms(l)
                   IN  [facts |-> facts,
                        resolved |-> [f \in 1..Len(facts) |-> find(l, facts[f].id)]]
    /\ UNCHANGED <<natives, engine>>
    /\ UNCHANGED callRest

\* ItemSlot::iter(): every slot kind once, in the order of declaration
\* (item_slot.rs:16-22).
ItemSlotIter == <<21, 22>>

\* ItemSlot::name()
SlotName(slot) == IF slot = 21 THEN "head" ELSE "hands"

\* Mutant of SlotFacts: a filled slot gets its slot_taken fact only.
SlotFactsTakenOnly(t, slot) ==
    IF slot \in DOMAIN t
       THEN <<[pred |-> "slot_taken", id |-> slot, item |-> t[slot], name |-> ""]>>
       ELSE <<[pred |-> "slot", id |-> slot, item |-> 0, name |-> SlotName(slot)]>>

\* instance.rs:118-122  the facts written for one slot kind.
SlotFacts(t, slot) ==
    <<[pred |-> "slot", id |-> slot, item |-> 0, name |-> SlotName(slot)]>>
    \o (IF slot \in DOMAIN t
           THEN <<[pred |-> "slot_taken", id |-> slot, item |-> t[slot], name |-> ""]>>
           ELSE <<>>)

\* instance.rs:113-126  slot_atoms
slot_atoms(t) == Concat([k \in 1..Len(ItemSlotIter) |-> SlotFacts(t, ItemSlotIter[k])])

CallSlotAtoms ==
    /\ NoCall
    /\ \E t \in Templates :
         /\ call' = [fn |-> "slot_atoms", template |-> t]
         /\ ret' = Ok(slot_atoms(t))
    /\ UNCHANGED <<natives, engine>>
    /\ UNCHANGED callRest

\* Numbers a slot_chosen atom may carry as its slot: those of SlotNumbers and
\* negative ones (the argument is an i32).
SlotArguments == SlotNumbers \cup {-1, -65515}

\* The atoms of a model, as Symbols, with every slot argument.
ModelSymbols ==
    {[kind |-> k, slot |-> 0, item |-> 0] : k \in {"other", "bad"}} \cup
    {[kind |-> "chosen", slot |-> n, item |-> i] : n \in SlotArguments, i \in ItemIds}

\* Vec<Symbol>: the lists of at most n atoms of S, built by push.
RECURSIVE SymbolLists(_, _)
SymbolLists(S, n) ==
    IF n = 0 THEN {<<>>}
    ELSE LET shorter == SymbolLists(S, n - 1)
         IN  shorter \cup {Append(l, sym) : l \in shorter, sym \in S}

\* worker.rs:154-189  chosen_items_from_model from the k-th symbol on, `acc`
\* being the vector `items` so far: atoms that are no slot_chosen function are
\* skipped, a missing or non-numeric argument and a number that from_repr
\* does not know return Err, every other atom pushes its pair.
RECURSIVE ChosenFrom(_, _, _)
ChosenFrom(syms, k, acc) ==
    IF k > Len(syms) THEN Ok(acc)
    ELSE IF syms[k].kind = "other" THEN ChosenFrom(syms, k + 1, acc)
    ELSE IF syms[k].kind = "bad" THEN Err("Symbol")
    ELSE IF ~ValidRepr(syms[k].slot) THEN Err("InvalidSlot")
    ELSE ChosenFrom(syms, k + 1, Append(acc, <<AsU16(syms[k].slot), syms[k].item>>))

chosen_items_from_model(syms) == ChosenFrom(syms, 1, <<>>)

CallChosenItems ==
    /\ NoCall
    /\ \E syms \in SymbolLists(ModelSymbols, MaxFacts) :
         /\ call' = [fn |-> "chosen_items_from_model", symbols |-> syms]
         /\ ret' = chosen_items_from_model(syms)
    /\ UNCHANGED <<natives, engine>>
    /\ UNCHANGED callRest

\* stat.rs:29-490  Stat, by the names strum's Display gives (snake_case), in
\* the order of declaration Stat::iter() follows: every stat that has a
\* counterpart, and of the others (which all take the `_ => None` arms) three.
StatIter ==
    <<"strength", "dexterity", "constitution", "quickness", "intelligence",
      "piety", "empathy", "charisma", "acuity", "hitpoints",
      "strength_cap", "dexterity_cap", "constitution_cap", "quickness_cap",
      "intelligence_cap", "piety_cap", "empathy_cap", "charisma_cap",
      "acuity_cap", "hitpoints_cap", "power_pool_cap", "body", "shield",
      "power_pool_toa", "unknown_ranger_stuff">>

Stats == {StatIter[k] : k \in 1..Len(StatIter)}

\* Option::None of base_stat and cap_stat.
NoStat == "none"

\* stat.rs:637-653  Stat::base_stat
base_stat(s) ==
    CASE s = "strength_cap" -> "strength"
      [] s = "dexterity_cap" -> "dexterity"
      [] s = "constitution_cap" -> "constitution"
      [] s = "quickness_cap" -> "quickness"
      [] s = "intelligence_cap" -> "intelligence"
      [] s = "piety_cap" -> "piety"
      [] s = "empathy_cap" -> "empathy"
      [] s = "charisma_cap" -> "charisma"
      [] s = "acuity_cap" -> "acuity"
      [] s = "hitpoints_cap" -> "hitpoints"
      [] s = "power_pool_cap" -> "power_pool_toa"
      [] OTHER -> NoStat

\* Mutant of cap_stat: the arm of PowerPoolToa is missing.
cap_stat_no_power_pool(s) ==
    CASE s = "strength" -> "strength_cap"
      [] s = "dexterity" -> "dexterity_cap"
      [] s = "constitution" -> "constitution_cap"
      [] s = "quickness" -> "quickness_cap"
      [] s = "intelligence" -> "intelligence_cap"
      [] s = "piety" -> "piety_cap"
      [] s = "empathy" -> "empathy_cap"
      [] s = "charisma" -> "charisma_cap"
      [] s = "acuity" -> "acuity_cap"
      [] s = "hitpoints" -> "hitpoints_cap"
      [] OTHER -> NoStat

\* stat.rs:655-670  Stat::cap_stat
cap_stat(s) ==
    CASE s = "strength" -> "strength_cap"
      [] s = "dexterity" -> "dexterity_cap"
      [] s = "constitution" -> "constitution_cap"
      [] s = "quickness" -> "quickness_cap"
      [] s = "intelligence" -> "intelligence_cap"
      [] s = "piety" -> "piety_cap"
      [] s = "empathy" -> "empathy_cap"
      [] s = "charisma" -> "charisma_cap"
      [] s = "acuity" -> "acuity_cap"
      [] s = "hitpoints" -> "hitpoints_cap"
      [] s = "power_pool_toa" -> "power_pool_cap"
      [] OTHER -> NoStat

\* instance.rs:57-71  the facts written for one stat (of the stat fact, the
\* name only).
StatFacts(s) ==
    <<[pred |-> "stat", a |-> s, b |-> ""]>>
    \o (IF cap_stat(s) # NoStat
           THEN <<[pred |-> "stat_cap", a |-> s, b |-> cap_stat(s)]>> ELSE <<>>)
    \o (IF base_stat(s) # NoStat
           THEN <<[pred |-> "stat_base", a |-> s, b |-> base_stat(s)]>> ELSE <<>>)

\* instance.rs:53-74  stat_atoms
stat_atoms == Concat([k \in 1..Len(StatIter) |-> StatFacts(StatIter[k])])

CallStatAtoms ==
    /\ NoCall
    /\ call' = [fn |-> "stat_atoms"]
    /\ ret' = Ok(stat_atoms)
    /\ UNCHANGED <<natives, engine>>
    /\ UNCHANGED callRest

\* Operations of a run (session calls, calls on the handle, decodings),
\* counted in the order the worker makes them, that may fail.
MaxOps == 10

\* Reads of the flag, counted in the order the worker makes them, of which
\* one may be the first to read it as set.
MaxChecks == 3

\* What a run meets: the operations that fail, the read of the flag that is
\* the first to return true (0: none), the models the search yields before it
\* is exhausted.  The receiver is alive, so every send succeeds.
Scripts ==
    [fail : SUBSET (1..MaxOps), stop : 0..MaxChecks, models : 0..MaxModels]

\* worker.rs:102-136  the loop of run_optimization_logic from the iteration
\* whose flag read is the ck-th and whose handle.model() is the op-th
\* operation, m models having been sent; the messages of the whole run.
RECURSIVE LoopNew(_, _, _, _, _)
LoopNew(sc, op, ck, m, sent) ==
    IF sc.stop # 0 /\ sc.stop <= ck THEN sent \o <<"Finished">>
    ELSE IF op \in sc.fail THEN sent \o <<"Error">>
    ELSE IF m = sc.models THEN sent \o <<"Finished">>
    ELSE IF op + 1 \in sc.fail THEN sent \o <<"Error">>
    ELSE IF op + 2 \in sc.fail THEN sent \o <<"NewModel", "Error">>
    ELSE LoopNew(sc, op + 3, ck + 1, m + 1, sent \o <<"NewModel">>)

\* worker.rs:52-57, 77-100  the messages of a run of the worker of worker.rs:
\* operations 1 to 3 are Control::new and the two loads, 4 is ground, 5 is
\* solve; the first read of the flag follows ground.  (The atom builders
\* write to a String; they are taken to succeed.)
RunNew(sc) ==
    IF sc.fail \cap 1..3 # {} THEN <<"Setup", "Error">>
    ELSE IF 4 \in sc.fail THEN <<"Setup", "Grounding", "Error">>
    ELSE IF sc.stop = 1 THEN <<"Setup", "Grounding">>
    ELSE IF 5 \in sc.fail THEN <<"Setup", "Grounding", "Solving", "Error">>
    ELSE LoopNew(sc, 6, 2, 0, <<"Setup", "Grounding", "Solving">>)

\* optimize.rs:98-142  the loop of the older worker: a decoding error is
\* printed and leaves the loop, the result of resume is discarded.
RECURSIVE LoopOld(_, _, _, _, _)
LoopOld(sc, op, ck, m, sent) ==
    IF sc.stop # 0 /\ sc.stop <= ck THEN sent \o <<"Finished">>
    ELSE IF op \in sc.fail THEN sent \o <<"Error">>
    ELSE IF m = sc.models THEN sent \o <<"Finished">>
    ELSE IF op + 1 \in sc.fail THEN sent
    ELSE LoopOld(sc, op + 3, ck + 1, m + 1, sent \o <<"NewModel">>)

\* optimize.rs:32-96  the messages of a run of the older worker: every
\* failing session call sends Error and returns.
RunOld(sc) ==
    IF sc.fail \cap 1..3 # {} THEN <<"Setup", "Error">>
    ELSE IF 4 \in sc.fail THEN <<"Setup", "Grounding", "Error">>
    ELSE IF sc.stop = 1 THEN <<"Setup", "Grounding">>
    ELSE IF 5 \in sc.fail THEN <<"Setup", "Grounding", "Solving", "Error">>
    ELSE LoopOld(sc, 6, 2, 0, <<"Setup", "Grounding", "Solving">>)

\* Both workers run on what the script says.
CallWorkers ==
    /\ NoCall
    /\ \E sc \in Scripts :
         /\ call' = [fn |-> "start_optimization_worker", script |-> sc]
         /\ ret' = [tag |-> "Ok", new |-> RunNew(sc), old |-> RunOld(sc)]
    /\ UNCHANGED <<natives, engine>>
    /\ UNCHANGED callRest

CallNext ==
    \/ CallNumber \/ CallName \/ CallArguments \/ CallGet
    \/ CallLoad \/ CallSetKeyToValue \/ CallItemAtoms \/ CallSlotAtoms
    \/ CallChosenItems \/ CallStatAtoms \/ CallWorkers

\* Every call, each on a fresh session.
CallSpec == Init /\ [][CallNext]_vars

(***************************************************************************)
(* The optimize button: on_toggle_optimization (inventory.rs:118-183)      *)
(* starts a worker with a fresh flag, channel and consumer task when       *)
(* ui_state is Idle and stores the flag held by the stop_flag signal       *)
(* otherwise.  Every run has its own worker thread and its own consumer    *)
(* task; click handlers and the tasks run on the UI thread, one at a time, *)
(* and a task handles one message per turn.  All workers write and load    *)
(* the one scratch file instance.lp (worker.rs:84-88).                     *)
(***************************************************************************)

\* Runs started at most.
MaxRuns == 2

\* NewModel messages of one run.
MaxRunModels == 1

\* The program texts a run may generate from the template and the items it
\* is started with (0: no text).
ProgramTexts == {1, 2}

clickRest == <<workerVars, apiVars, clientVars, dataVars, traceVars, callVars>>

\* The worker of run r goes to position p, sending the messages ms.
Step(r, p, ms) ==
    runs' = [runs EXCEPT ![r].wpc = p, ![r].sent = runs[r].sent \o ms]

\* The thread of run r has not exited.
Running(r) == runs[r].wpc # "exit"

\* inventory.rs:143-176  a run as it is started: the thread at the top of
\* run_optimization_logic, the flag false, the channel empty, the task
\* waiting in recv().  `alone` notes that no thread of an earlier run was
\* left when this one was started.
NewRun(t) ==
    [wpc |-> "setup", flag |-> FALSE, sent |-> <<>>, rcvd |-> 0, task |-> "recv",
     text |-> t, loaded |-> 0, alone |-> \A r \in 1..started : ~Running(r)]

\* inventory.rs:119-177  a click while ui_state is Idle: the template and the
\* items are cloned, the flag is created and put in stop_flag, the task is
\* spawned and the worker started.  ui_state is not written.
ClickStart ==
    /\ ui_state = "Idle"
    /\ started < MaxRuns
    /\ \E t \in ProgramTexts : runs' = Append(runs, NewRun(t))
    /\ started' = started + 1
    /\ stop_signal' = started + 1
    /\ UNCHANGED <<ui_state, file>>
    /\ UNCHANGED clickRest

\* inventory.rs:178-182  a click in another state: the flag stop_flag holds,
\* if any, is stored.
ClickStop ==
    /\ ui_state # "Idle"
    /\ stop_signal # 0
    /\ ~runs[stop_signal].flag
    /\ runs' = [runs EXCEPT ![stop_signal].flag = TRUE]
    /\ UNCHANGED <<ui_state, stop_signal, started, file>>
    /\ UNCHANGED clickRest

\* worker.rs:77  send(Setup)
WSetup(r) ==
    /\ runs[r].wpc = "setup"
    /\ Step(r, "write", <<"Setup">>)
    /\ UNCHANGED <<ui_state, stop_signal, started, file>>
    /\ UNCHANGED clickRest

\* worker.rs:79-85  the text is built and written to instance.lp; a failed
\* write leaves the file as it is and is ignored.
WWrite(r) ==
    /\ runs[r].wpc = "write"
    /\ \E ok \in BOOLEAN : file' = IF ok THEN runs[r].text ELSE file
    /\ Step(r, "load", <<>>)
    /\ UNCHANGED <<ui_state, stop_signal, started>>
    /\ UNCHANGED clickRest

\* worker.rs:87-88  control.load("instance.lp")?: the engine reads what the
\* file holds now; without a file the load fails.
WLoad(r) ==
    /\ runs[r].wpc = "load"
    /\ IF file = 0
          THEN Step(r, "drop", <<"Error">>)
          ELSE runs' = [runs EXCEPT ![r].wpc = "ground", ![r].loaded = file]
    /\ UNCHANGED <<ui_state, stop_signal, started, file>>
    /\ UNCHANGED clickRest

\* worker.rs:87-91  the session is created, both files are loaded and
\* Grounding is sent.
WGround(r) ==
    /\ runs[r].wpc = "ground"
    /\ Step(r, "check", <<"Grounding">>)
    /\ UNCHANGED <<ui_state, stop_signal, started, file>>
    /\ UNCHANGED clickRest

\* worker.rs:92-98  grounding is done and the flag is read: set, the
\* function returns and the thread exits without a message; unset, Solving
\* is sent.
WCheck(r) ==
    /\ runs[r].wpc = "check"
    /\ IF runs[r].flag THEN Step(r, "exit", <<>>)
                       ELSE Step(r, "loop", <<"Solving">>)
    /\ UNCHANGED <<ui_state, stop_signal, started, file>>
    /\ UNCHANGED clickRest

\* worker.rs:112-127  a model is decoded and sent.
WModel(r) ==
    /\ runs[r].wpc = "loop"
    /\ Cardinality({i \in 1..Len(runs[r].sent) : runs[r].sent[i] = "NewModel"}) < MaxRunModels
    /\ Step(r, "loop", <<"NewModel">>)
    /\ UNCHANGED <<ui_state, stop_signal, started, file>>
    /\ UNCHANGED clickRest

\* worker.rs:103-107, 128-131  the flag is read as set, or the search is
\* exhausted: Finished is sent and the loop left.
WFinish(r) ==
    /\ runs[r].wpc = "loop"
    /\ Step(r, "drop", <<"Finished">>)
    /\ UNCHANGED <<ui_state, stop_signal, started, file>>
    /\ UNCHANGED clickRest

\* worker.rs:54-56, 132-135  a call fails (building the text, the session
\* calls before Grounding, ground, solve or a call on the handle): Error is
\* sent.
WFail(r) ==
    /\ runs[r].wpc \in {"write", "load", "ground", "check", "loop"}
    /\ Step(r, "drop", <<"Error">>)
    /\ UNCHANGED <<ui_state, stop_signal, started, file>>
    /\ UNCHANGED clickRest

\* worker.rs:57, 139-140  the handle and the session are released; the
\* thread exits and drops its sender.
WExit(r) ==
    /\ runs[r].wpc = "drop"
    /\ Step(r, "exit", <<>>)
    /\ UNCHANGED <<ui_state, stop_signal, started, file>>
    /\ UNCHANGED clickRest

\* inventory.rs:150-171  the task of run r handles its next message.
TaskRecv(r) ==
    /\ runs[r].task = "recv"
    /\ runs[r].rcvd < Len(runs[r].sent)
    /\ LET msg == runs[r].sent[runs[r].rcvd + 1]
       IN  /\ ui_state' = CASE msg \in {"Setup", "Grounding"} -> "Preparing"
                            [] msg = "Solving" -> "Solving"
                            [] msg \in {"Finished", "Error"} -> "Idle"
                            [] OTHER -> ui_state
           /\ stop_signal' = IF msg = "Finished" THEN 0 ELSE stop_signal
    /\ runs' = [runs EXCEPT ![r].rcvd = runs[r].rcvd + 1]
    /\ UNCHANGED <<started, file>>
    /\ UNCHANGED clickRest

\* inventory.rs:150, 173  recv() returns None: every message is handled and
\* the sender is gone; the task sets ui_state to Idle and ends.
TaskEnd(r) ==
    /\ runs[r].task = "recv"
    /\ runs[r].rcvd = Len(runs[r].sent)
    /\ ~Running(r)
    /\ ui_state' = "Idle"
    /\ runs' = [runs EXCEPT ![r].task = "ended"]
    /\ UNCHANGED <<stop_signal, started, file>>
    /\ UNCHANGED clickRest

ClickNext ==
    \/ ClickStart \/ ClickStop
    \/ \E r \in 1..started :
          \/ WSetup(r) \/ WWrite(r) \/ WLoad(r) \/ WGround(r) \/ WCheck(r)
          \/ WModel(r) \/ WFinish(r) \/ WFail(r) \/ WExit(r)
          \/ TaskRecv(r) \/ TaskEnd(r)

ClickSpec == Init /\ [][ClickNext]_vars

(***************************************************************************)
(* Properties of the worker run                                            *)
(***************************************************************************)

Last(s) == s[Len(s)]

Tags(s) == [i \in 1..Len(s) |-> s[i].tag]

Rank(m) ==
    CASE m.tag = "Setup" -> 0
      [] m.tag = "Grounding" -> 1
      [] m.tag = "Solving" -> 2
      [] m.tag = "NewModel" -> 3
      [] OTHER -> 4

\* The worker has left run_optimization_logic and dropped its locals.
Exited == pc \in {"report", "done"}

\* C1: every run that reaches the end of the worker thread with the receiver
\* still listening has put exactly one terminal message (Finished or Error)
\* on the channel.
C1_ExactlyOneTerminal ==
    (pc = "done" /\ rxOpen) => NumTerminal(chan) = 1

\* C2: the channel always holds Setup, Grounding, Solving, NewModel*, terminal
\* in this order: each kind is preceded by the kind before it, no kind but
\* NewModel occurs twice, and a terminal message is the last message.
C2_MessageOrder ==
    /\ \A i \in 1..Len(chan) :
          /\ chan[i].tag = "Grounding" => \E j \in 1..(i-1) : chan[j].tag = "Setup"
          /\ chan[i].tag = "Solving" => \E j \in 1..(i-1) : chan[j].tag = "Grounding"
          /\ chan[i].tag = "NewModel" => \E j \in 1..(i-1) : chan[j].tag = "Solving"
          /\ IsTerminal(chan[i]) => i = Len(chan)
    /\ \A i, j \in 1..Len(chan) :
          i < j => \/ Rank(chan[i]) < Rank(chan[j])
                   \/ chan[i].tag = "NewModel" /\ chan[j].tag = "NewModel"

\* C2 witness: a complete run with two models.
C2_Witness ==
    /\ pc = "done"
    /\ Tags(chan) = <<"Setup", "Grounding", "Solving", "NewModel", "NewModel", "Finished">>

\* C3: a run whose check after grounding read the flag as set ends without
\* Solving and without NewModel, and with Finished as its last message.
C3_EarlyStopEmitsFinished ==
    (pc = "done" /\ rxOpen /\ sawStop = "early") =>
        /\ Count(chan, "Solving") = 0
        /\ Count(chan, "NewModel") = 0
        /\ Count(chan, "Finished") = 1
        /\ Last(chan) = Finished

\* C4: a run during which the flag was stored ends with exactly one Finished
\* and no Error (stated here for the runs in which nothing failed; the claim
\* extends it to the runs with a failure after the store).
C4_CancelledRunEndsFinished ==
    (pc = "done" /\ rxOpen /\ stop_flag /\ ~failed) =>
        /\ Count(chan, "Finished") = 1
        /\ Count(chan, "Error") = 0

\* C5: once the worker has read the flag as set, no NewModel is added to the
\* channel and the worker is never again at a wait, a model read, a decode or
\* a resume; when it read the flag in the loop it has called cancel() exactly
\* once by the time Finished is sent, and Finished is the last message.
C5_NoNewModelAfterStopSeen ==
    /\ sawStop # "no" =>
          /\ Count(chan, "NewModel") = nmAtSaw
          /\ pc \in {"cancel", "send_finished_stop", "drop_handle",
                     "drop_control", "report", "done"}
    /\ (sawStop = "loop" /\ pc # "cancel") => cancelCalls = 1
    /\ sawStop # "loop" => cancelCalls = 0
    /\ (sawStop = "loop" /\ Exited /\ rxOpen) => Last(chan) = Finished

\* C5 witness: the flag was read in the loop after a model had been emitted,
\* while a further model was already waiting in the handle.
C5_Witness ==
    /\ pc = "done"
    /\ sawStop = "loop"
    /\ nmAtSaw >= 1
    /\ produced > nmAtSaw
    /\ cancelCalls = 1

\* C6: once the flag is stored, the worker thread eventually exits and drops
\* its sender.
C6_StopLeadsToExit == stop_flag ~> SenderDropped

\* C6 witness: the flag was stored while the search was running and the
\* thread has exited.
C6_Witness ==
    /\ stop_flag
    /\ SenderDropped
    /\ sawStop = "loop"
    /\ handle = "closed"

\* C7: a run in which the flag was stored before the search yielded any model
\* carries, when nothing failed, exactly one Finished and no NewModel.
C7_CancelBeforeAnyModel ==
    (pc = "done" /\ rxOpen /\ flagSetAt = 0 /\ ~failed) =>
        /\ Count(chan, "Finished") = 1
        /\ Count(chan, "NewModel") = 0

C9_ReleasedExactlyOnce ==
    /\ controlFrees <= 1
    /\ handleCloses <= 1
    /\ Exited =>
          /\ controlFrees = (IF control = "none" THEN 0 ELSE 1)
          /\ handleCloses = (IF handle = "none" THEN 0 ELSE 1)
          /\ control # "live"
          /\ handle # "open"

\* C9 witness: an error return taken while the handle existed.
C9_Witness ==
    /\ pc = "done"
    /\ result = "err"
    /\ handle = "closed"
    /\ control = "freed"
    /\ handleCloses = 1
    /\ controlFrees = 1

(***************************************************************************)
(* Properties of the wrapper API                                           *)
(***************************************************************************)

\* C12: the worker reads a Model only while it is the engine's current model
\* (never after resume() or cancel()), the decoding is over before the
\* following resume(), and no Model is held when an iteration begins.
C12_ModelNotUsedAfterResume ==
    /\ ~staleRead
    /\ modelRef # 0 => (pc \in {"decode", "send_new_model", "resume"} /\ ModelCurrent)
    /\ cancelCalls > 0 => modelRef = 0

\* A second model has been decoded and sent, and the search resumed after it.
C12_Witness ==
    /\ Count(chan, "NewModel") = 2
    /\ pc = "loop"
    /\ solver = "searching"
    /\ ~failed

\* The state of the worker's solve handle as its caller can observe it: the
\* wrapper keeps none of its own, so it is the state of the native search,
\* "Errored" once a call on the handle or on its model has failed.
HandleSM ==
    IF handle = "none" THEN "None"
    ELSE IF handle = "closed" THEN "Closed"
    ELSE IF failed THEN "Errored"
    ELSE IF solver \in {"searching", "model"} THEN "Active"
    ELSE IF solver = "exhausted" THEN "Exhausted"
    ELSE "Cancelled"

TerminalSM == {"Exhausted", "Cancelled", "Errored"}

C15_CancelIdempotent ==
    /\ [][ cancelCalls' = cancelCalls + 1 =>
            /\ cancelCalls >= 1 => (solver' = solver /\ EngineResult' = EngineResult)
            /\ solver \in {"exhausted", "interrupted"} =>
                  (solver' = solver /\ EngineResult' = EngineResult)
            /\ solver \in {"searching", "model"} =>
                  (WaitReady' /\ "Interrupted" \in EngineResult') ]_vars
    /\ [][ (solver = "interrupted" /\ handle' = "open") =>
            (WaitReady' /\ "Interrupted" \in EngineResult') ]_vars
    /\ [](ready.after >= 1 => ready.val = "ready")

\* A search that had yielded a model was cancelled twice; a wait and a get()
\* made after the second cancel saw it ready and interrupted.
C15_Witness ==
    /\ cancelCalls = 2
    /\ solver = "interrupted"
    /\ produced > 0
    /\ ready = [val |-> "ready", after |-> 2]
    /\ "Interrupted" \in lastResult

(***************************************************************************)
(* Properties of the templates                                             *)
(***************************************************************************)

\* The worker has just sent NewModel(new_template): chosen_items still holds
\* the pairs decoded from the model the template was built for.
JustSent ==
    /\ dpc = "idle"
    /\ dchan # <<>>
    /\ Last(dchan).tag = "NewModel"

\* A decoded slot_chosen fact names slot s.
Named(s) == \E j \in 1..Len(chosen_items) : chosen_items[j][1] = s

\* Template t holds for slot s what the input template holds for it.
AsInput(t, s) ==
    IF s \in DOMAIN template THEN s \in DOMAIN t /\ t[s] = template[s]
                              ELSE s \notin DOMAIN t

\* C16: a template sent with NewModel has every entry of the input template
\* except for slots named by a decoded fact, it has no entry the input
\* template lacks except for such slots, and the input template itself is
\* never written.
C16_InsertOnly ==
    /\ [](JustSent => \A s \in SlotKinds :
                         Named(s) \/ AsInput(Last(dchan).template, s))
    /\ [](JustSent => \A s \in DOMAIN template : s \in DOMAIN Last(dchan).template)
    /\ [][template' = template]_vars

\* A template was sent that keeps the input's Head entry, which no fact
\* named, and has a Hands entry the input lacks.
C16_Witness ==
    /\ JustSent
    /\ DOMAIN template = {21}
    /\ ~Named(21)
    /\ DOMAIN Last(dchan).template = {21, 22}

\* C17 as stated: every decoded pair (s, i) decides slot s of the template
\* sent: it references item i if the candidate list has an item with id i,
\* and is as in the input template otherwise.
C17_EveryFactDecides ==
    JustSent =>
       \A j \in 1..Len(chosen_items) :
          LET s == chosen_items[j][1]
              i == chosen_items[j][2]
              t == Last(dchan).template
          IN  IF i \in items THEN s \in DOMAIN t /\ t[s] = i
                             ELSE AsInput(t, s)

\* The decoded pairs for slot s whose item id is in the candidate list.
Found(s) ==
    {j \in 1..Len(chosen_items) : chosen_items[j][1] = s /\ chosen_items[j][2] \in items}

LastOf(J) == CHOOSE j \in J : \A k \in J : k <= j

\* C17, amended: slot s of the template sent references the item of the last
\* decoded pair for s whose item id is in the candidate list; pairs with an
\* unknown id are skipped, and without a pair that is found slot s is as in
\* the input template.
C17_LastFoundFactDecides ==
    JustSent =>
       \A s \in SlotKinds :
          LET t == Last(dchan).template
          IN  IF Found(s) # {}
                 THEN s \in DOMAIN t /\ t[s] = chosen_items[LastOf(Found(s))][2]
                 ELSE AsInput(t, s)

\* A template was sent for a model with two pairs for one slot, the first with
\* a known id and the second with an unknown one.
C17_Witness ==
    /\ JustSent
    /\ Len(chosen_items) = 2
    /\ chosen_items[1][1] = chosen_items[2][1]
    /\ chosen_items[1][2] \in items
    /\ chosen_items[2][2] \notin items
    /\ chosen_items[1][1] \in DOMAIN template
    /\ template[chosen_items[1][1]] # chosen_items[1][2]

\* C18: in every template sent with NewModel, each slot filled in the input
\* template still references the same item.
C18_FilledSlotsKept ==
    \A k \in 1..Len(dchan) :
       dchan[k].tag = "NewModel" =>
          \A s \in DOMAIN template :
             s \in DOMAIN dchan[k].template /\ dchan[k].template[s] = template[s]

\* C19: the consumer task writes the stored template only when it handles a
\* NewModel, and then with the template received; a template is sent only
\* when all decoded pairs are merged, never after a decoding error, so what
\* is stored is the input template or a completely merged one.
C19_ReplacedOnlyOnNewModel ==
    /\ [][stored' # stored =>
            (cpc = "locked" /\ NextMsg.tag = "NewModel" /\ stored' = NextMsg.template)]_vars
    /\ [][(dpc = "error" \/ dpc = "done") =>
            Count(dchan', "NewModel") = Count(dchan, "NewModel")]_vars
    /\ [](JustSent => Last(dchan).template = MergeFrom(template, items, chosen_items, 1))
    /\ [](stored = template
           \/ \E k \in 1..Len(dchan) : /\ dchan[k].tag = "NewModel"
                                        /\ stored = dchan[k].template)

\* A second model failed to decode after a pair of it had been decoded; the
\* consumer has handled the NewModel of the first model and the Error, and
\* the task has ended.
C19_Witness ==
    /\ Tags(dchan) = <<"NewModel", "Error">>
    /\ Len(chosen_items) >= 1
    /\ cpc = "ended"
    /\ stored = dchan[1].template
    /\ stored # template

\* C20 as stated: the stored template is never written in place.
C20_NeverInPlace == wrote # "in_place"

\* Slot entries other than that of slot s are the same in t and u.
SameExcept(t, u, s) ==
    \A x \in SlotKinds \ {s} :
       IF x \in DOMAIN t THEN x \in DOMAIN u /\ u[x] = t[x] ELSE x \notin DOMAIN u

\* C20, amended: the stored template is written only by the holder of the
\* template mutex: by the consumer task, which replaces it with the template
\* received, and by the equip/unequip handlers, which write one slot entry
\* of it in place.
C20_WrittenUnderMutex ==
    [][ /\ stored' # stored =>
             (cpc = "locked" /\ cpc' = "stored") \/ (gpc = "locked" /\ gpc' = "written")
        /\ (cpc = "locked" /\ cpc' = "stored") =>
             (lock = "consumer" /\ lock' = "consumer" /\ stored' = NextMsg.template)
        /\ (gpc = "locked" /\ gpc' = "written") =>
             (lock = "gui" /\ lock' = "gui" /\ SameExcept(stored, stored', gop.slot)) ]_vars

\* The consumer has replaced the stored template, and a handler, holding the
\* mutex, has then written an entry of it.
C20_Witness ==
    /\ rcvd >= 1
    /\ dchan[1].tag = "NewModel"
    /\ gpc = "written"
    /\ lock = "gui"
    /\ wrote = "in_place"
    /\ stored # dchan[1].template

(***************************************************************************)
(* Properties of single calls                                              *)
(***************************************************************************)

\* C23: number() returns the number of a Number symbol and a TypeError for
\* every other kind; name() and arguments() return a TypeError for every kind
\* but Function and succeed for a Function; a Function without arguments
\* gives the empty sequence and a Function without a name the empty string.
C23_KindGuarded ==
    /\ call.fn = "number" =>
          IF kind(call.sym) = "Number" THEN ret = Ok(call.sym.num)
                                       ELSE ret = Err("TypeError")
    /\ call.fn \in {"name", "arguments"} =>
          IF kind(call.sym) = "Function" THEN ret.tag = "Ok"
                                         ELSE ret = Err("TypeError")
    /\ (call.fn = "arguments" /\ kind(call.sym) = "Function" /\ call.sym.args = <<>>) =>
          ret = Ok(<<>>)
    /\ (call.fn = "name" /\ kind(call.sym) = "Function" /\ call.sym.name = "null") =>
          ret = Ok("")

\* arguments() was called on a Function symbol without arguments.
C23_Witness ==
    /\ call.fn = "arguments"
    /\ call.sym.type = 5
    /\ call.sym.args = <<>>
    /\ ret = Ok(<<>>)

\* The word whose set bits are the flags of F.
WordOf(F) ==
    LET bit(f) == IF f \in F THEN 2^FlagBit[f] ELSE 0
    IN  bit("Satisfiable") + bit("Unsatisfiable") + bit("Exhausted") + bit("Interrupted")

\* C24: when the native call succeeds, get returns a SolveResult exactly for
\* the words all of whose set bits are flags, the flags returned are exactly
\* the set bits of the word, and every other word gives an error.
C24_ExactFlagsOrError ==
    (call.fn = "get" /\ call.ok) =>
       IF UnknownBits(call.word) = {}
          THEN ret.tag = "Ok" /\ ret.val \subseteq Flags /\ WordOf(ret.val) = call.word
          ELSE ret = Err("Bindings")

\* get decoded a word with two flags set.
C24_Witness ==
    /\ call.fn = "get"
    /\ ret = Ok({"Satisfiable", "Exhausted"})

\* A call of load or set_key_to_value with a NUL byte in its text.
NulCall == call.fn \in {"load", "set_key_to_value"} /\ HasNul(call.text)

\* C25 as stated: a text with a NUL byte is rejected with NulError before any
\* native call is made, and the session is as before.
C25_NulRejectedBeforeNative ==
    NulCall => (ret = Err("NulError") /\ natives = <<>> /\ engine = {})

\* C25, amended: a text with a NUL byte is never handed to the engine and the
\* session is as before; load rejects it with NulError before any native
\* call, set_key_to_value after the native lookup of the key, and with the
\* error of the lookup if that fails.
C25_NulNeverReachesEngine ==
    NulCall =>
       /\ engine = {}
       /\ \A i \in 1..Len(natives) : ~HasNul(natives[i].text)
       /\ call.fn = "load" => (ret = Err("NulError") /\ natives = <<>>)
       /\ call.fn = "set_key_to_value" =>
             /\ Len(natives) = 1
             /\ natives[1].f = "clingo_configuration_map_at"
             /\ ret = IF natives[1].ok THEN Err("NulError") ELSE Err("Internal")

\* set_key_to_value rejected a value with a NUL byte after looking up the key.
C25_Witness ==
    /\ call.fn = "set_key_to_value"
    /\ HasNul(call.text)
    /\ ret = Err("NulError")
    /\ Len(natives) = 1

FactsAbout(facts, pred, s) ==
    {i \in 1..Len(facts) : facts[i].pred = pred /\ facts[i].id = s}

\* C27: slot_atoms writes one slot(id, name) fact for every slot kind, one
\* slot_taken(id, itemId) fact for every filled slot, with the id of the item
\* in it, none for an empty slot, and nothing else.
C27_SlotFacts ==
    call.fn = "slot_atoms" =>
       LET facts == ret.val
           t == call.template
       IN  /\ \A s \in SlotKinds :
                /\ Cardinality(FactsAbout(facts, "slot", s)) = 1
                /\ Cardinality(FactsAbout(facts, "slot_taken", s)) =
                      IF s \in DOMAIN t THEN 1 ELSE 0
           /\ \A i \in 1..Len(facts) :
                /\ facts[i].id \in SlotKinds
                /\ facts[i].pred \in {"slot", "slot_taken"}
                /\ facts[i].pred = "slot" => facts[i].name = SlotName(facts[i].id)
                /\ facts[i].pred = "slot_taken" => facts[i].item = t[facts[i].id]

\* slot_atoms was called for a template with one slot filled and one empty.
C27_Witness ==
    /\ call.fn = "slot_atoms"
    /\ DOMAIN call.template = {21}
    /\ Len(ret.val) = 3

(***************************************************************************)
(* Properties of the runs started from the optimize button                 *)
(***************************************************************************)

\* C29: at most one worker thread has not exited, and while one has not,
\* the flag the stop_flag signal holds, if any, is the flag of that worker.
C29_AtMostOneWorker ==
    /\ Cardinality({r \in 1..started : Running(r)}) <= 1
    /\ \A r \in 1..started : (Running(r) /\ stop_signal # 0) => stop_signal = r

\* C30: what a worker has loaded from instance.lp is the text it generated.
C30_LoadsOwnText ==
    \A r \in 1..started : runs[r].loaded # 0 => runs[r].loaded = runs[r].text

\* C33: the session is freed only from the end of scope of `control`, with
\* the handle closed or never created; no state has the session freed and
\* the handle open, and once the thread has left run_optimization_logic a
\* handle that was created is closed and its session freed.
C33_HandleClosedBeforeSessionFreed ==
    /\ [](control = "freed" => handle # "open")
    /\ [][controlFrees' > controlFrees => (pc = "drop_control" /\ handle # "open")]_vars
    /\ [][handleCloses' > handleCloses => (pc = "drop_handle" /\ control = "live")]_vars
    /\ []((pc \in {"report", "done"} /\ handle # "none") =>
              (handle = "closed" /\ control = "freed"))

\* C33 witness: on an error return from the loop the handle has been closed
\* and the session is about to be freed.
C33_Witness ==
    /\ pc = "drop_control"
    /\ result = "err"
    /\ handle = "closed"
    /\ control = "live"
    /\ handleCloses = 1
    /\ controlFrees = 0

\* The statements that send with `?`: Grounding, NewModel and the Finished of
\* an exhausted search.
CheckedSends == {"send_grounding", "send_new_model", "send_finished"}

\* C37: once the receiver has been dropped, the worker leaves its loop at the
\* next Grounding, NewModel or Finished send, with the send's error.  The
\* program is grounded only after a Grounding message was delivered and the
\* search is resumed only after the NewModel message of its current model was
\* delivered, so that neither happens after a failed send (a dropped receiver
\* stays dropped).  From the drop on the worker reaches its end, where the
\* handle is closed and the session is freed.
C37_StopsWhenReceiverDropped ==
    /\ [][(~rxOpen /\ pc \in CheckedSends /\ pc' # pc)
            => (pc' = "drop_handle" /\ result' = "err" /\ chan' = chan)]_vars
    /\ [][~rxOpen => ~rxOpen']_vars
    /\ [][(pc = "ground" /\ pc' # pc) => Count(chan, "Grounding") = 1]_vars
    /\ [][(pc = "resume" /\ pc' # pc)
            => (produced >= 1 /\ Count(chan, "NewModel") = produced)]_vars
    /\ []((~rxOpen /\ pc \in {"report", "done"})
            => (handle # "open" /\ control # "live"))
    /\ (~rxOpen) ~> (pc = "done" /\ handle # "open" /\ control # "live")

\* The receiver was dropped during the search: the send of the first model
\* failed, the search was not resumed, handle and session are released.
C37_Witness ==
    /\ pc = "done"
    /\ ~rxOpen
    /\ result = "err"
    /\ ~failed
    /\ produced = 1
    /\ Count(chan, "Grounding") = 1
    /\ Count(chan, "NewModel") = 0
    /\ handle = "closed"
    /\ control = "freed"

\* C34: a decoding whose atoms include a slot_chosen with a slot number that
\* is not the id of a declared slot kind fails.
C34_UndeclaredSlotRejected ==
    (/\ call.fn = "chosen_items_from_model"
     /\ \E k \in 1..Len(call.symbols) :
           /\ call.symbols[k].kind = "chosen"
           /\ call.symbols[k].slot \notin SlotKinds) => ret.tag = "Err"

\* The stored template holds what the handler called last has written.
EditPresent ==
    IF gop.kind = "select"
       THEN gop.slot \in DOMAIN stored /\ stored[gop.slot] = gop.item
       ELSE gop.slot \notin DOMAIN stored

\* C35: when an equip or unequip handler has run during the run and neither
\* a handler nor the storing of a template is in progress, the stored
\* template holds what the handler wrote.
C35_GuiChangeKept ==
    (edits >= 1 /\ gpc = "idle" /\ cpc \in {"recv", "ended"}) => EditPresent

\* C36: the template sent for a model is the merge of that model's decoded
\* pairs into the input template with the candidate list, whatever was sent
\* for the models before: a slot none of its pairs names is as in the input.
C36_OwnAtomsOnly ==
    JustSent =>
       /\ Last(dchan).template = MergeFrom(template, items, chosen_items, 1)
       /\ \A s \in SlotKinds : Found(s) = {} => AsInput(Last(dchan).template, s)

\* C36 witness: the template of the second model lacks an entry which the
\* template of the first model has.
C36_Witness ==
    /\ JustSent
    /\ Len(dchan) = 2
    /\ \E s \in SlotKinds :
          /\ s \in DOMAIN dchan[1].template
          /\ s \notin DOMAIN dchan[2].template

\* C39: for every script the worker of worker.rs and the older worker of
\* optimize.rs send the same messages.
C39_SameMessages ==
    call.fn = "start_optimization_worker" => ret.new = ret.old

\* The facts a call returned, as a set.
Returned == {ret.val[k] : k \in 1..Len(ret.val)}

\* C38: cap_stat(s) = c exactly when base_stat(c) = s, and stat_atoms writes
\* stat_cap(s, c) exactly when it writes stat_base(c, s).
C38_CapAndBaseInverse ==
    call.fn = "stat_atoms" =>
        \A s \in Stats, c \in Stats :
           /\ cap_stat(s) = c <=> base_stat(c) = s
           /\ [pred |-> "stat_cap", a |-> s, b |-> c] \in Returned
                 <=> [pred |-> "stat_base", a |-> c, b |-> s] \in Returned
           /\ [pred |-> "stat_cap", a |-> s, b |-> c] \in Returned <=> cap_stat(s) = c

\* C38 witness: stat_atoms has written both facts of the pair whose names do
\* not follow the pattern of the others.
C38_Witness ==
    /\ call.fn = "stat_atoms"
    /\ [pred |-> "stat_cap", a |-> "power_pool_toa", b |-> "power_pool_cap"] \in Returned
    /\ [pred |-> "stat_base", a |-> "power_pool_cap", b |-> "power_pool_toa"] \in Returned

\* C32 (the part about the state during a run): once the task of the run
\* started last has handled Setup, ui_state is not Idle while messages of
\* that run are still to be handled.  Stated for the runs that were started
\* after the thread of every earlier run had exited.
C32_BusyWhileMessagesPending ==
    (/\ started >= 1
     /\ \A r \in 1..started : runs[r].alone
     /\ runs[started].rcvd >= 1
     /\ runs[started].rcvd < Len(runs[started].sent)) => ui_state # "Idle"

(***************************************************************************)
(* Properties of a stop requested while the search is running              *)
(***************************************************************************)

\* A step that puts a NewModel on the channel.
EmitsNewModel == Count(chan', "NewModel") > Count(chan, "NewModel")

\* C31: after the flag is stored the worker emits at most one further
\* NewModel; that one is emitted before the worker reads the flag as set, and
\* having read it as set the worker calls cancel() and emits none.  Every
\* poll wait is entered from a read of the flag that returned false, and an
\* iteration that emitted a NewModel goes back to that read.
C31_AtMostOneMoreNewModel ==
    /\ [](nmAtSet >= 0 => Count(chan, "NewModel") <= nmAtSet + 1)
    /\ [](sawStop # "no" => Count(chan, "NewModel") = nmAtSaw)
    /\ []((sawStop = "loop" /\ pc # "cancel") => cancelCalls = 1)
    /\ [][(pc # "wait" /\ pc' = "wait") => (pc = "loop" /\ ~stop_flag)]_vars
    /\ [][EmitsNewModel => (pc = "send_new_model" /\ pc' = "resume" /\ sawStop = "no")]_vars
    /\ [][(pc = "resume" /\ pc' # pc) => pc' \in {"loop", "drop_handle"}]_vars

\* C31 witness: the flag was stored during solving after one NewModel, one
\* more NewModel followed, and the worker then read the flag, cancelled and
\* exited.
C31_Witness ==
    /\ pc = "done"
    /\ nmAtSet = 1
    /\ Count(chan, "NewModel") = 2
    /\ sawStop = "loop"
    /\ cancelCalls = 1
    /\ Last(chan) = Finished

(***************************************************************************)
(* Properties of the failures and of the order of the session operations   *)
(***************************************************************************)

\* C21: every failure inside the worker is reported: when the thread has
\* exited after a failure, nobody asked it to stop and the receiver was there
\* all along, the last message on the channel is Error.
C21_EveryFailureReported ==
    (pc = "done" /\ rxOpen /\ ~stop_flag /\ (failed \/ writeErr)) =>
       (chan # <<>> /\ Last(chan).tag = "Error")

\* C22 as stated: ground() is not invoked when the flag is set by the time
\* grounding begins.
C22_NoGroundWhenStopped ==
    \A i \in 1..Len(ops) : ops[i].op = "ground" => ~ops[i].flag

\* C22, amended: the flag is read after grounding and at the top of every
\* iteration: solve() is invoked only after a ground() that began with the
\* flag unset, a check that reads the flag as set does not go on to
\* Solving, and an iteration that reads the flag as set goes to cancel, not
\* to wait.
C22_CheckedAfterGroundAndEachIteration ==
    /\ [](\A i \in 1..Len(ops) :
            ops[i].op = "solve" =>
               (i > 1 /\ ops[i-1].op = "ground" /\ ~ops[i-1].flag))
    /\ [][(pc = "check_stop" /\ stop_flag /\ pc' # pc) => pc' = "drop_handle"]_vars
    /\ [][(pc = "loop" /\ stop_flag /\ pc' # pc) => pc' = "cancel"]_vars
    /\ [][(pc # "wait" /\ pc' = "wait") => (pc = "loop" /\ ~stop_flag)]_vars

\* The flag was set when ground() was called, ground() was called all the
\* same and succeeded, and the run ended without a solve.
C22_Witness ==
    /\ pc = "done"
    /\ Len(ops) = 4
    /\ ops[4] = [op |-> "ground", ok |-> TRUE, flag |-> TRUE]

\* The session operations in the order the worker calls them.
SessionOrder == <<"new", "load_instance", "load_encoding", "ground", "solve">>

\* solve() has returned a handle.
SolveOk == Len(ops) = Len(SessionOrder) /\ ops[Len(ops)].ok

\* Positions of the worker whose next step is a call on the handle:
\* cancel (worker.rs:104), wait (109), model (112), resume (126).
HandlePcs == {"cancel", "wait", "model", "resume"}

\* C28: the worker calls create, load(instance), load(encoding), ground, solve
\* in this order, each at most once, none after an earlier one failed, and
\* every call on the handle comes after solve succeeded.
C28_SessionOrder ==
    /\ Len(ops) <= Len(SessionOrder)
    /\ \A i \in 1..Len(ops) : ops[i].op = SessionOrder[i]
    /\ \A i \in 1..Len(ops) : i < Len(ops) => ops[i].ok
    /\ pc \in HandlePcs => SolveOk
    /\ (cancelCalls > 0 \/ modelRef # 0 \/ produced > 0) => SolveOk

\* A run called all five operations, received a model and was cancelled.
C28_Witness ==
    /\ pc = "done"
    /\ SolveOk
    /\ produced >= 1
    /\ cancelCalls = 1

\* C10: whatever the client does through the public API, no session is freed
\* twice, no solve handle is closed twice, and no native call is made through
\* a Control, SolveHandle or Model whose native object has been released.
C10_NoDoubleCloseNoUseAfterRelease ==
    /\ \A i \in 1..MaxSessions : apiFrees[i] <= 1
    /\ apiCloses <= 1
    /\ ~misuse

\* C11: Control::solve does not wait for the final result: when it has
\* returned to its caller, the caller holds a solve handle that is still
\* open.
C11_SolveReturnsOpenHandle ==
    (ClientFree /\ handleState # "none") => handleState = "open"

====
